---- MODULE Spec2Model ----
(***************************************************************************)
(* Orchestration core of the purple-team CLI: the technique runner         *)
(* (core/executor.py), the playbook sequencer (core/playbook.py) and the   *)
(* network-escalation flow with its action log (interactive.py).           *)
(*                                                                         *)
(* The program is single-threaded: `pc' is the position of its one thread. *)
(* External processes are records in `procs'; the environment lets a       *)
(* running process exit and lets time pass.                                *)
(***************************************************************************)
EXTENDS Integers, Sequences, FiniteSets, TLC

\* ------------------------------------------------------------------ bounds
\* Largest timeout, in clock ticks, that a configuration or a caller supplies.
MaxTimeout == 2
\* Longest run of digits tried in a candidate technique identifier.
MaxDigits == 5

None == "None"

\* ------------------------------------------------------- technique identifiers
\* A string is a sequence of one-character strings.
Rep(c, n) == [i \in 1..n |-> c]

IsDigit(c) == c \in {"0", "1", "2", "3", "4", "5", "6", "7", "8", "9"}

\* `$' without re.MULTILINE: at the end of the string, or just before a
\* newline that is the last character of the string.
AtDollar(s, pos) == \/ pos = Len(s) + 1
                    \/ pos = Len(s) /\ s[pos] = "\n"

\* re.match(r"^T\d{4}(\.\d{3})?$", s): anchored at position 1; the optional
\* group is tried first and given up when `$' does not follow it.
ReMatch(s) ==
    /\ Len(s) >= 5
    /\ s[1] = "T"
    /\ \A i \in 2..5 : IsDigit(s[i])
    /\ \/ /\ Len(s) >= 9
          /\ s[6] = "."
          /\ \A i \in 7..9 : IsDigit(s[i])
          /\ AtDollar(s, 10)
       \/ AtDollar(s, 6)

validate_technique_id_always(technique_id) == TRUE

validate_technique_id(technique_id) == ReMatch(technique_id)

\* Candidate identifiers: a head, a run of digits, an optional sub-technique
\* part and a tail.
IdHeads == {<<"T">>, <<"t">>, <<"x", "T">>}
IdNums  == {Rep("0", n) : n \in 3..MaxDigits}
IdSubs  == {<<>>, <<".">>, <<".">> \o Rep("1", 2), <<".">> \o Rep("1", 3),
            <<"x">> \o Rep("1", 3)}
IdTails == {<<>>, <<"\n">>, <<"x">>, <<"\n", "\n">>}
TechniqueIds == {h \o n \o s \o t : h \in IdHeads, n \in IdNums,
                                    s \in IdSubs, t \in IdTails}

\* ------------------------------------------------------------- exceptions
\* The part of Python's exception hierarchy the handlers tell apart.
ExcParent(e) ==
    CASE e = "FileNotFoundError"  -> "OSError"
      [] e = "PermissionError"    -> "OSError"
      [] e = "OSError"            -> "Exception"
      [] e = "CalledProcessError" -> "SubprocessError"
      [] e = "TimeoutExpired"     -> "SubprocessError"
      [] e = "SubprocessError"    -> "Exception"
      [] e = "TypeError"          -> "Exception"
      [] e = "NameError"          -> "Exception"
      [] e = "Exception"          -> "BaseException"
      [] e = "SystemExit"         -> "BaseException"
      [] OTHER                    -> "object"

RECURSIVE IsSubclass(_, _)
IsSubclass(e, c) ==
    IF e = c THEN TRUE
    ELSE IF e \in {"BaseException", "object"} THEN FALSE
    ELSE IsSubclass(ExcParent(e), c)

\* Index of the first except clause that catches e, 0 when none does.
FirstClause(clauses, e) ==
    LET hits == {i \in 1..Len(clauses) : IsSubclass(e, clauses[i])}
    IN IF hits = {} THEN 0 ELSE CHOOSE i \in hits : \A j \in hits : i <= j

\* ------------------------------------------------------- playbook catalog
Tid(a, b, c, d) == <<"T", a, b, c, d>>

\* A sub-technique suffix of two digits.
SubTwoDigits(id, a, b, c) == id \o <<".", a, b>>

Sub(id, a, b, c) == id \o <<".", a, b, c>>

PlaybookTest(technique_id, test_numbers, description) ==
    [technique_id |-> technique_id, test_numbers |-> test_numbers,
     description |-> description]

KeyCredentialAccess ==
    <<"c", "r", "e", "d", "e", "n", "t", "i", "a", "l", "-",
      "a", "c", "c", "e", "s", "s">>
KeyDiscovery == <<"d", "i", "s", "c", "o", "v", "e", "r", "y">>
KeyPersistence == <<"p", "e", "r", "s", "i", "s", "t", "e", "n", "c", "e">>

\* PLAYBOOKS: key -> Playbook (name, tests); descriptions are shortened.
PLAYBOOKS ==
    (KeyCredentialAccess :> [name |-> KeyCredentialAccess, tests |-> <<
        PlaybookTest(Tid("1", "0", "0", "3"), <<1>>, "OS Credential Dumping"),
        PlaybookTest(Sub(Tid("1", "5", "5", "2"), "0", "0", "1"), <<1>>,
                     "Credentials In Files"),
        PlaybookTest(Sub(Tid("1", "5", "5", "5"), "0", "0", "3"), <<1>>,
                     "Credentials from Web Browsers")>>])
    @@ (KeyDiscovery :> [name |-> KeyDiscovery, tests |-> <<
        PlaybookTest(Sub(Tid("1", "0", "8", "7"), "0", "0", "1"), <<1>>,
                     "Account Discovery"),
        PlaybookTest(Tid("1", "0", "1", "6"), <<1>>,
                     "System Network Configuration Discovery"),
        PlaybookTest(Tid("1", "0", "1", "8"), <<>>, "Remote System Discovery"),
        PlaybookTest(Tid("1", "0", "8", "2"), <<>>,
                     "System Information Discovery")>>])
    @@ (KeyPersistence :> [name |-> KeyPersistence, tests |-> <<
        PlaybookTest(Sub(Tid("1", "5", "4", "7"), "0", "0", "1"), <<>>,
                     "Registry Run Keys"),
        PlaybookTest(Sub(Tid("1", "0", "5", "3"), "0", "0", "5"), <<>>,
                     "Scheduled Task"),
        PlaybookTest(Sub(Tid("1", "1", "3", "6"), "0", "0", "1"), <<>>,
                     "Local Account")>>])

\* str.lower() on the letters that occur in playbook names.
UpperLetters == <<"A", "C", "D", "E", "I", "L", "N", "O", "P", "R", "S", "T",
                  "V", "Y">>
LowerLetters == <<"a", "c", "d", "e", "i", "l", "n", "o", "p", "r", "s", "t",
                  "v", "y">>

LowerChar(c) ==
    IF \E i \in 1..Len(UpperLetters) : UpperLetters[i] = c
    THEN LowerLetters[CHOOSE i \in 1..Len(UpperLetters) : UpperLetters[i] = c]
    ELSE c

Lower(s) == [i \in 1..Len(s) |-> LowerChar(s[i])]

VARIABLES
    pc,        \* position of the program's single thread
    config,    \* the configuration store (the settings the core reads)
    view,      \* frame of a detail or filter view of the interactive menu
    catalog,   \* the PLAYBOOKS dictionary object and the lists it holds
    tcp,       \* the TCPListener object, its sockets and its threads
    procs,     \* external processes started and not yet reaped
    rat,       \* frame of run_atomic_test
    rat_ret,   \* outcome of the last run_atomic_test call
    rat_obs,   \* what happened to the runner process of the last call
    pb,        \* frame of execute_playbook
    pb_ret,    \* outcome of the last execute_playbook call
    pb_runs,   \* the tests execute_playbook has started, in starting order
    simulation_actions,  \* the action log (module global of interactive.py)
    cl,        \* frame of cleanup
    cl_undo,   \* the entries cleanup has processed, in processing order
    cl_ret,    \* outcome of the last cleanup call
    host,      \* the host: where the scanner and the cracker are installed
    esc,       \* frame of run_escalation_flow
    esc_ret    \* outcome of the last run_escalation_flow call

vars == <<pc, config, view, catalog, tcp, procs, rat, rat_ret, rat_obs, pb, pb_ret, pb_runs,
          simulation_actions, cl, cl_undo, cl_ret, host, esc, esc_ret>>

esc_vars == <<host, esc, esc_ret>>

rat_vars == <<rat, rat_ret, rat_obs>>

pb_vars == <<pb, pb_ret, pb_runs>>

cl_vars == <<cl, cl_undo, cl_ret>>

log_vars == <<simulation_actions, cl, cl_undo, cl_ret>>

NoFrame == [active |-> FALSE]

\* Most clients that connect to the listener.
MaxClients == 2
Clients == 1..MaxClients

\* TCPListener.__init__ (lines 14-19) with no thread started yet. lt, mt and
\* ht are the positions of the listener thread, of the main thread and of
\* the handler thread of each client; sock is each client socket's state.
NoTcp ==
    [running |-> FALSE, server_socket |-> "None", connections |-> <<>>,
     sock |-> [c \in Clients |-> "unconnected"],
     lt |-> "not_started", mt |-> "idle",
     ht |-> [c \in Clients |-> "none"]]
NoRet   == [status |-> "none"]

\* ----------------------------------------------------------- build_command
\* The command is a list of options, each with its argument (None when the
\* option takes none); the source concatenates them into one string.
Opt(name, val) == [opt |-> name, val |-> val]

OptIf(cond, name, val) == IF cond THEN <<Opt(name, val)>> ELSE <<>>

\* show_details wins over show_details_brief (if / elif).
DetailOpts(show_details, show_details_brief) ==
    IF show_details THEN <<Opt("-ShowDetails", None)>>
    ELSE IF show_details_brief THEN <<Opt("-ShowDetailsBrief", None)>>
    ELSE <<>>

DigitChars == <<"0", "1", "2", "3", "4", "5", "6", "7", "8", "9">>

\* str(num) for a natural number.
RECURSIVE Str(_)
Str(num) ==
    IF num < 10 THEN <<DigitChars[num + 1]>>
    ELSE Str(num \div 10) \o <<DigitChars[(num % 10) + 1]>>

\* ",".join(parts)
RECURSIVE JoinCommas(_)
JoinCommas(parts) ==
    IF parts = <<>> THEN <<>>
    ELSE IF Len(parts) = 1 THEN parts[1]
    ELSE parts[1] \o <<",">> \o JoinCommas(Tail(parts))

\* A join that writes each number once, at its first position.
test_nums_str_unique(test_numbers) ==
    LET first == {i \in 1..Len(test_numbers) :
                     \A j \in 1..(i - 1) : test_numbers[j] # test_numbers[i]}
        F[i \in 0..Len(test_numbers)] ==
            IF i = 0 THEN <<>>
            ELSE IF i \in first THEN Append(F[i - 1], Str(test_numbers[i]))
            ELSE F[i - 1]
    IN JoinCommas(F[Len(test_numbers)])

\* Line 71: ",".join(str(num) for num in test_numbers)
test_nums_str(test_numbers) ==
    JoinCommas([i \in 1..Len(test_numbers) |-> Str(test_numbers[i])])

\* test_numbers: None and the empty list are both falsy and both written <<>>.
build_command(technique_id, test_numbers, check_prereqs, get_prereqs, cleanup, show_details, show_details_brief, session, any_os) ==
    <<Opt(config.powershell_path, None), Opt("-Command", None),
      Opt("Invoke-AtomicTest", None), Opt("-AtomicTechnique", technique_id)>>
    \o OptIf(test_numbers # <<>>, "-TestNumbers", test_nums_str(test_numbers))
    \o OptIf(check_prereqs, "-CheckPrereqs", None)
    \o OptIf(get_prereqs, "-GetPrereqs", None)
    \o OptIf(cleanup, "-Cleanup", None)
    \o DetailOpts(show_details, show_details_brief)
    \o OptIf(any_os, "-AnyOS", None)
    \o OptIf(session # None, "-Session", session)

\* --------------------------------------------------------- run_atomic_test
\* except clauses of run_atomic_test, in source order, and the result each
\* one returns.
RatExceptClausesNoCatchAll ==
    <<"FileNotFoundError", "CalledProcessError", "TimeoutExpired">>

RatExceptClauses ==
    <<"FileNotFoundError", "CalledProcessError", "TimeoutExpired", "Exception">>

RatExceptKind(i) ==
    CASE i = 1 -> "not_found"
      [] i = 2 -> "nonzero_exit"
      [] i = 3 -> "timeout"
      [] i = 4 -> "unexpected"

\* The thread's position after run_atomic_test returns to its caller.
RatContinuation(caller) ==
    IF caller = "playbook" THEN "pb_collect" ELSE "returned"

RatReturn(success, kind) ==
    /\ rat_ret' = [status |-> "returned", success |-> success, kind |-> kind]
    /\ pc' = RatContinuation(rat.caller)
    /\ rat' = NoFrame

\* An exception raised inside the try block: the first matching clause turns
\* it into a result; an exception no clause catches leaves the function, and
\* no caller in the program catches it.
RatExcept(e) ==
    LET i == FirstClause(RatExceptClauses, e)
    IN IF i > 0 THEN RatReturn(FALSE, RatExceptKind(i))
       ELSE /\ rat_ret' = [status |-> "raised", exc |-> e]
            /\ pc' = "crashed"
            /\ rat' = NoFrame

\* Inputs of a run_atomic_test call.
TestNumberLists == {<<>>, <<2, 10, 2>>}
Sessions == {None, "lab"}
Timeouts == 1..MaxTimeout
\* An optional timeout argument: <<>> is None, <<n>> is n seconds.
OptTimeouts == {<<>>} \cup {<<n>> : n \in Timeouts}
ExitCodes == {0, 1}

\* Lines 134-155: validation, the effective timeout, the command.
run_atomic_test_enter(technique_id, test_numbers, check_prereqs, get_prereqs, cleanup, session, show_details_brief, any_os, timeout, capture_output, caller) ==
    /\ rat_obs' = [technique_id |-> technique_id,
                   capture_output |-> capture_output,
                   launch |-> "none", spawned |-> 0, ended |-> "none",
                   code |-> 0]
    /\ IF ~validate_technique_id(technique_id)
       THEN /\ rat_ret' = [status |-> "returned", success |-> FALSE,
                           kind |-> "invalid_id"]
            /\ pc' = RatContinuation(caller)
            /\ rat' = NoFrame
       ELSE /\ rat' = [active |-> TRUE,
                       caller |-> caller,
                       capture_output |-> capture_output,
                       timeout |-> IF timeout = <<>> THEN config.timeout
                                   ELSE timeout[1],
                       test_numbers |-> test_numbers,
                       command |-> build_command(
                           technique_id, test_numbers, check_prereqs,
                           get_prereqs, cleanup, FALSE,
                           IF capture_output THEN show_details_brief ELSE FALSE,
                           session, any_os)]
            /\ rat_ret' = NoRet
            /\ pc' = "rat_spawn"

\* run_atomic_test called by the program's top level (the run command, the
\* interactive run menu) or by any other caller of the public function.
RunAtomicTest ==
    /\ pc = "idle"
    /\ \E technique_id \in TechniqueIds, test_numbers \in TestNumberLists,
          mode \in [check_prereqs : BOOLEAN, get_prereqs : BOOLEAN,
                    cleanup : BOOLEAN],
          session \in Sessions, show_details_brief \in BOOLEAN,
          timeout \in OptTimeouts, capture_output \in BOOLEAN :
          run_atomic_test_enter(technique_id, test_numbers, mode.check_prereqs,
                                mode.get_prereqs, mode.cleanup, session,
                                show_details_brief, FALSE, timeout,
                                capture_output, "top")
    /\ UNCHANGED <<config, view, catalog, tcp, procs, pb_vars, log_vars, esc_vars>>

\* subprocess.run starts the process (Popen): the executable is missing, the
\* operating system refuses, or the process is running.
RatSpawn ==
    /\ pc = "rat_spawn"
    /\ \E launch \in {"started", "FileNotFoundError", "PermissionError"} :
          IF launch = "started"
          THEN /\ procs' = Append(procs, [tool |-> "runner",
                                          argv |-> rat.command,
                                          state |-> "running",
                                          code |-> 0,
                                          elapsed |-> 0])
               /\ rat_obs' = [rat_obs EXCEPT !.spawned = @ + 1,
                                             !.launch = launch]
               /\ pc' = "rat_wait"
               /\ UNCHANGED <<rat, rat_ret>>
          ELSE /\ RatExcept(launch)
               /\ rat_obs' = [rat_obs EXCEPT !.launch = launch]
               /\ UNCHANGED procs
    /\ UNCHANGED <<config, view, catalog, tcp, pb_vars, log_vars, esc_vars>>

\* The runner process exits on its own.
RunnerExits ==
    /\ pc = "rat_wait"
    /\ Len(procs) = 1 /\ procs[1].state = "running"
    /\ \E code \in ExitCodes :
          procs' = <<[procs[1] EXCEPT !.state = "exited", !.code = code]>>
    /\ UNCHANGED <<pc, config, view, catalog, tcp, rat_vars, pb_vars, log_vars, esc_vars>>

\* One clock tick passes while the runner is being waited for.
RunnerTick ==
    /\ pc = "rat_wait"
    /\ Len(procs) = 1 /\ procs[1].state = "running"
    /\ procs[1].elapsed < rat.timeout
    /\ procs' = <<[procs[1] EXCEPT !.elapsed = @ + 1]>>
    /\ UNCHANGED <<pc, config, view, catalog, tcp, rat_vars, pb_vars, log_vars, esc_vars>>

\* subprocess.run(check=True): a non-zero return code raises
\* CalledProcessError.
subprocess_run_check_off(code) == "returned"

subprocess_run_check(code) ==
    IF code # 0 THEN "CalledProcessError" ELSE "returned"

\* communicate() returns: the process has exited and is reaped.
RatWaitReturns ==
    /\ pc = "rat_wait"
    /\ Len(procs) = 1 /\ procs[1].state = "exited"
    /\ procs' = <<>>
    /\ rat_obs' = [rat_obs EXCEPT !.ended = "exited", !.code = procs[1].code]
    /\ IF subprocess_run_check(procs[1].code) = "returned"
       THEN RatReturn(TRUE, "none")
       ELSE RatExcept(subprocess_run_check(procs[1].code))
    /\ UNCHANGED <<config, view, catalog, tcp, pb_vars, log_vars, esc_vars>>

\* What subprocess.run does with the process when communicate(timeout) times
\* out: it kills the process and waits for it before re-raising.
timeout_reap_leaks(ps) == ps

timeout_reap(ps) == <<>>

\* The timeout elapses with the process still running.
RatTimeout ==
    /\ pc = "rat_wait"
    /\ Len(procs) = 1 /\ procs[1].state = "running"
    /\ procs[1].elapsed >= rat.timeout
    /\ procs' = timeout_reap(procs)
    /\ rat_obs' = [rat_obs EXCEPT !.ended = "timeout"]
    /\ RatExcept("TimeoutExpired")
    /\ UNCHANGED <<config, view, catalog, tcp, pb_vars, log_vars, esc_vars>>

\* -------------------------------------------------------- execute_playbook
\* A lookup that compares the name as given.
get_playbook_exact(name) ==
    IF name \in DOMAIN catalog THEN <<catalog[name]>> ELSE <<>>

\* PLAYBOOKS.get(name.lower()): <<>> stands for None.
get_playbook(name) ==
    IF Lower(name) \in DOMAIN catalog THEN <<catalog[Lower(name)]>>
    ELSE <<>>

\* The catalog's keys in the dictionary's insertion order.
PlaybookKeys == <<KeyCredentialAccess, KeyDiscovery, KeyPersistence>>

\* get_available_playbooks (lines 188-198): the keys, in the dictionary's
\* order, as the names of the list returned.
GetAvailablePlaybooks ==
    /\ pc = "idle"
    /\ pb_ret' = [status |-> "listed",
                  names |-> SelectSeq(PlaybookKeys,
                                      LAMBDA k : k \in DOMAIN catalog)]
    /\ pc' = "returned"
    /\ pb' = NoFrame
    /\ pb_runs' = <<>>
    /\ UNCHANGED <<config, view, catalog, tcp, procs, rat_vars, log_vars, esc_vars>>

\* Names a caller may pass: the catalog's keys, the same in other letter
\* cases, and names of no playbook.
PlaybookNames ==
    DOMAIN PLAYBOOKS
    \cup {<<"D">> \o Tail(KeyDiscovery),
          <<"P", "E", "R", "S", "I", "S", "T", "E", "N", "C", "E">>,
          <<"n", "o", "s", "u", "c", "h">>,
          KeyDiscovery \o <<" ">>}

NoPbRet == [status |-> "none"]

\* Lines 235-240: the lookup and the loop's initial state.
ExecutePlaybook ==
    /\ pc = "idle"
    /\ \E playbook_name \in PlaybookNames,
          mode \in [check_prereqs : BOOLEAN, get_prereqs : BOOLEAN,
                    cleanup : BOOLEAN],
          session \in Sessions :
          LET playbook == get_playbook(playbook_name)
          IN IF playbook = <<>>
             THEN /\ pb_ret' = [status |-> "returned", success |-> FALSE,
                                results |-> <<[error |-> playbook_name]>>]
                  /\ pc' = "returned"
                  /\ pb' = NoFrame
             ELSE /\ pb' = [active |-> TRUE, playbook_name |-> playbook_name,
                            playbook |-> playbook[1],
                            mode |-> mode, session |-> session,
                            i |-> 1, all_successful |-> TRUE,
                            results |-> <<>>]
                  /\ pb_ret' = NoPbRet
                  /\ pc' = "pb_loop"
    /\ pb_runs' = <<>>
    /\ UNCHANGED <<config, view, catalog, tcp, procs, rat_vars, log_vars, esc_vars>>

\* Lines 242-252 and 265: the next test of the loop is handed to
\* run_atomic_test, or the loop is over and the function returns.
PbLoop ==
    /\ pc = "pb_loop"
    /\ IF pb.i <= Len(pb.playbook.tests)
       THEN LET test == pb.playbook.tests[pb.i]
            IN /\ run_atomic_test_enter(
                      test.technique_id, test.test_numbers,
                      pb.mode.check_prereqs, pb.mode.get_prereqs,
                      pb.mode.cleanup, pb.session, TRUE, FALSE, <<>>, TRUE,
                      "playbook")
               /\ pb_runs' = Append(pb_runs, test)
               /\ UNCHANGED <<pb, pb_ret>>
       ELSE /\ pb_ret' = [status |-> "returned",
                          success |-> pb.all_successful,
                          results |-> pb.results]
            /\ pc' = "returned"
            /\ pb' = [pb EXCEPT !.active = FALSE]
            /\ UNCHANGED <<rat, rat_ret, rat_obs, pb_runs>>
    /\ UNCHANGED <<config, view, catalog, tcp, procs, log_vars, esc_vars>>

\* A loop that takes each test off the list as it runs it.
tests_consumed(tests) == Tail(tests)

\* Lines 242-263: what one pass of `for test in playbook.tests' leaves of
\* the list it iterates. The pass reads test.technique_id, test.test_numbers
\* and test.description and appends to the local results list only.
tests_after_iteration(tests) == tests

\* Index of the test the loop turns to after test i.
pb_next_index_abort(i, success, n) == IF success THEN i + 1 ELSE n + 1

pb_next_index(i, success, n) == i + 1

\* Lines 262-263: all_successful after a test.
pb_all_successful_last(all_successful, success) == success

pb_all_successful(all_successful, success) ==
    IF ~success THEN FALSE ELSE all_successful

\* Lines 254-263: the result of the test that has returned is appended.
PbCollect ==
    /\ pc = "pb_collect"
    /\ rat_ret.status = "returned"
    /\ LET test == pb.playbook.tests[pb.i]
           result == [technique_id |-> test.technique_id,
                      description |-> test.description,
                      success |-> rat_ret.success,
                      output |-> rat_ret.kind]
       IN pb' = [pb EXCEPT
                   !.results = Append(@, result),
                   !.all_successful = pb_all_successful(@, rat_ret.success),
                   !.i = pb_next_index(@, rat_ret.success,
                                       Len(pb.playbook.tests))]
    /\ catalog' = [catalog EXCEPT
                      ![pb.playbook.name].tests = tests_after_iteration(@)]
    /\ pc' = "pb_loop"
    /\ UNCHANGED <<config, view, tcp, procs, rat_vars, pb_ret, pb_runs, log_vars, esc_vars>>

\* ---------------------------------------------------- detail and filter views
\* re.match(r"^T\d{4}(\.\d{3})?$", s, re.IGNORECASE): the pattern's only
\* letter matches in either case.
ReMatchIgnoreCase(s) ==
    /\ Len(s) >= 1
    /\ s[1] \in {"T", "t"}
    /\ ReMatch(<<"T">> \o Tail(s))

\* str.strip(): white space removed at both ends.
RECURSIVE Strip(_)
Strip(s) ==
    IF s = <<>> THEN s
    ELSE IF s[1] \in {" ", "\n"} THEN Strip(Tail(s))
    ELSE IF s[Len(s)] \in {" ", "\n"} THEN Strip(SubSeq(s, 1, Len(s) - 1))
    ELSE s

\* The value that lists every technique.
All == <<"A", "l", "l">>

\* except clauses around subprocess.run, in source order: get_test_details
\* (executor.py 330) and execute_ps_command (interactive.py 1992-2006).
ViewExceptClauses(caller) ==
    IF caller = "details" THEN <<"Exception">>
    ELSE <<"FileNotFoundError", "CalledProcessError", "TimeoutExpired",
           "OSError">>

\* The view has its command and goes on to subprocess.run.
ViewCall(caller, technique_id, command) ==
    /\ view' = [active |-> TRUE, caller |-> caller,
                technique_id |-> technique_id, command |-> command,
                ret |-> NoRet]
    /\ pc' = "view_spawn"

\* get_test_details(technique_id, show_details=True): lines 311-318.
get_test_details(technique_id, show_details) ==
    ViewCall("details", technique_id,
             build_command(technique_id, <<>>, FALSE, FALSE, FALSE,
                           show_details, ~show_details, None, FALSE))

\* The technique tables a browse view hands to the prompt: none, or the
\* sorted ids of the index data.
TechniqueTables == {<<>>, <<Tid("1", "0", "0", "3")>>}

\* handle_technique_details_prompt: the operator types an index of the
\* table, an identifier, or nothing.
HandleTechniqueDetailsPrompt ==
    /\ pc = "idle"
    /\ \E typed \in TechniqueIds \cup {<<>>, <<"1">>},
          sorted_tech_ids \in TechniqueTables :
          LET user_input == Strip(typed)
              hits == {i \in 1..Len(sorted_tech_ids) : Str(i) = user_input}
          IN IF user_input = <<>>
             THEN /\ pc' = "returned" /\ UNCHANGED view
             ELSE IF hits # {}
             THEN get_test_details(
                      sorted_tech_ids[CHOOSE i \in hits : TRUE], TRUE)
             ELSE IF ReMatchIgnoreCase(user_input)
             THEN get_test_details(user_input, TRUE)
             ELSE /\ pc' = "returned" /\ UNCHANGED view
    /\ UNCHANGED <<config, catalog, tcp, procs, rat_vars, pb_vars, log_vars, esc_vars>>

\* Search terms typed at the list menu; <<>> is the empty answer and None.
FilterStrs == {<<>>, <<"c", "r", "e", "d">>, Tid("1", "0", "0", "3")}

\* show_filtered_tests_powershell(filter_str): lines 615-648.
ShowFilteredTests ==
    /\ pc = "idle"
    /\ \E filter_str \in FilterStrs, show_details \in BOOLEAN,
          any_os \in BOOLEAN :
          LET technique_id == IF filter_str # <<>> THEN filter_str ELSE All
          IN ViewCall("filter", technique_id,
                      build_command(technique_id, <<>>, FALSE, FALSE, FALSE,
                                    show_details, ~show_details, None,
                                    any_os))
    /\ UNCHANGED <<config, catalog, tcp, procs, rat_vars, pb_vars, log_vars, esc_vars>>

\* The view returns (success, text) to the menu that shows it.
ViewReturn(success, kind) ==
    /\ view' = [view EXCEPT !.active = FALSE,
                            !.ret = [status |-> "returned",
                                     success |-> success, kind |-> kind]]
    /\ pc' = "returned"

\* An exception of subprocess.run: a clause of the view's function turns it
\* into a failed result, or it leaves the function uncaught.
ViewExcept(e) ==
    IF FirstClause(ViewExceptClauses(view.caller), e) > 0
    THEN ViewReturn(FALSE, e)
    ELSE /\ view' = [view EXCEPT !.active = FALSE,
                                 !.ret = [status |-> "raised", exc |-> e]]
         /\ pc' = "crashed"

\* subprocess.run starts the process, or Popen fails.
ViewSpawn ==
    /\ pc = "view_spawn"
    /\ \E launch \in {"started", "FileNotFoundError", "PermissionError"} :
          IF launch = "started"
          THEN /\ procs' = Append(procs, [tool |-> "runner",
                                          argv |-> view.command,
                                          state |-> "running",
                                          code |-> 0,
                                          elapsed |-> 0])
               /\ pc' = "view_wait"
               /\ UNCHANGED view
          ELSE /\ ViewExcept(launch)
               /\ UNCHANGED procs
    /\ UNCHANGED <<config, catalog, tcp, rat_vars, pb_vars, log_vars, esc_vars>>

\* subprocess.run(check=True, timeout=config.timeout) comes back: the process
\* exited, or the timeout elapsed and the process was killed and reaped.
ViewReturns ==
    /\ pc = "view_wait"
    /\ Len(procs) = 1
    /\ \E ended \in {"exited", "TimeoutExpired"}, code \in ExitCodes :
          IF ended = "TimeoutExpired"
          THEN /\ procs' = timeout_reap(procs)
               /\ ViewExcept("TimeoutExpired")
          ELSE /\ procs' = <<>>
               /\ IF subprocess_run_check(code) = "returned"
                  THEN ViewReturn(TRUE, "none")
                  ELSE ViewExcept(subprocess_run_check(code))
    /\ UNCHANGED <<config, catalog, tcp, rat_vars, pb_vars, log_vars, esc_vars>>

\* --------------------------------------------------------------- action log
\* An entry of simulation_actions is a Python value: a dict with "type" and
\* "data" (py = "dict"; data is a list of key/value pairs) or a plain string
\* (py = "str"; text holds what the string was formatted from).
NoText == [module |-> "", port |-> 0, outcome |-> ""]

Action(type, data) ==
    [py |-> "dict", type |-> type, data |-> data, text |-> NoText]

\* Line 1517: the f-string appended after a brute-force attempt.
BruteForceNote(module, port, bf_success) ==
    [py |-> "str", type |-> "", data |-> <<>>,
     text |-> [module |-> module, port |-> port,
               outcome |-> IF bf_success THEN "succeeded" ELSE "failed"]]

\* data[key] of a dict payload.
DataGet(data, key) ==
    data[CHOOSE i \in 1..Len(data) : data[i][1] = key][2]

\* reversed(simulation_actions): the index processed by the k-th iteration
\* over a log of n entries.
cleanup_order_forward(n, k) == k

cleanup_order(n, k) == n - k + 1

\* The inverse cleanup performs for a dict entry of each type, as the command
\* or library call it issues, and the payload key naming its target.
InverseOpRemovesUnknown(type) ==
    CASE type = "create_file"           -> "os.remove"
      [] type = "create_directory"      -> "shutil.rmtree"
      [] type = "modify_registry"       -> "Remove-ItemProperty"
      [] type = "start_service"         -> "Stop-Service"
      [] type = "disable_firewall_rule" -> "Disable-NetFirewallRule"
      [] OTHER                          -> "os.remove"

InverseOp(type) ==
    CASE type = "create_file"           -> "os.remove"
      [] type = "create_directory"      -> "shutil.rmtree"
      [] type = "modify_registry"       -> "Remove-ItemProperty"
      [] type = "start_service"         -> "Stop-Service"
      [] type = "disable_firewall_rule" -> "Disable-NetFirewallRule"
      [] OTHER                          -> "skip"

InverseKey(type) ==
    CASE type = "create_file"           -> "filepath"
      [] type = "create_directory"      -> "dirpath"
      [] type = "modify_registry"       -> "value_name"
      [] type = "start_service"         -> "service_name"
      [] type = "disable_firewall_rule" -> "rule_name"
      [] OTHER                          -> ""

\* How an inverse step can end: a file or directory may be absent (no call is
\* made then); every call may fail, and the failure is caught and printed.
InverseOutcomes(type) ==
    CASE type \in {"create_file", "create_directory"} ->
             {"done", "absent", "error"}
      [] type \in {"modify_registry", "start_service",
                   "disable_firewall_rule"} -> {"done", "error"}
      [] OTHER -> {"skipped"}

\* ---------------------------------------------- run_escalation_flow: exits
NoEscRet == [status |-> "none"]

\* return success, message; frame holds the locals at the return.
EscReturnFrom(frame, success, message) ==
    /\ esc_ret' = [status |-> "returned", success |-> success,
                   message |-> message]
    /\ esc' = [frame EXCEPT !.active = FALSE]
    /\ pc' = "returned"

EscReturn(success, message) == EscReturnFrom(esc, success, message)

\* An exception raised below run_escalation_flow: the function has no
\* handler around cleanup() or the tool installers, and neither have its
\* callers, so the exception ends the program.
EscRaiseFrom(frame, e) ==
    /\ esc_ret' = [status |-> "raised", exc |-> e]
    /\ esc' = [frame EXCEPT !.active = FALSE]
    /\ pc' = "crashed"

EscRaise(e) == EscRaiseFrom(esc, e)

\* Line 1015: exit(1) raises SystemExit, which `except Exception' does not
\* catch: the process ends.
EscExitFrom(frame) ==
    /\ esc_ret' = [status |-> "exited", exc |-> "SystemExit"]
    /\ esc' = [frame EXCEPT !.active = FALSE]
    /\ pc' = "crashed"

EscExit == EscExitFrom(esc)

\* The thread's position after cleanup returns to its caller.
CleanupContinuation(caller) ==
    IF caller = "flag" THEN "esc_after_cleanup_flag"
    ELSE IF caller = "menu" THEN "esc_after_cleanup"
    ELSE "esc_after_cleanup_noports"

\* Lines 1046-1050: an empty log returns at once, otherwise the loop starts.
cleanup_enter(caller) ==
    /\ cl_undo' = <<>>
    /\ IF simulation_actions = <<>>
       THEN /\ cl_ret' = [status |-> "returned"]
            /\ cl' = [active |-> FALSE, caller |-> caller, n |-> 0, k |-> 1]
            /\ pc' = CleanupContinuation(caller)
       ELSE /\ cl_ret' = NoRet
            /\ cl' = [active |-> TRUE, caller |-> caller,
                      n |-> Len(simulation_actions), k |-> 1]
            /\ pc' = "cl_loop"
    /\ UNCHANGED simulation_actions

\* Whether the loop body can read action["type"] and action["data"]:
\* subscripting a str with a str raises TypeError.
entry_is_subscriptable_any(entry) == TRUE

entry_is_subscriptable(entry) == entry.py = "dict"

\* A cleanup that leaves the log as it found it.
log_after_cleanup_kept(log) == log

\* Line 1111: simulation_actions = [] after the loop.
log_after_cleanup(log) == <<>>

\* Lines 1053-1112: one iteration of the loop over reversed(simulation_actions)
\* or, after the last one, the clearing of the log and the return.
CleanupStep ==
    /\ pc = "cl_loop"
    /\ IF cl.k > cl.n
       THEN /\ simulation_actions' = log_after_cleanup(simulation_actions)
            /\ cl_ret' = [status |-> "returned"]
            /\ cl' = [cl EXCEPT !.active = FALSE]
            /\ pc' = CleanupContinuation(cl.caller)
            /\ UNCHANGED <<cl_undo, esc, esc_ret>>
       ELSE LET idx == cleanup_order(cl.n, cl.k)
                action == simulation_actions[idx]
            IN IF ~entry_is_subscriptable(action)
               THEN \* action["type"] raises; nothing catches it
                    /\ cl_undo' = Append(cl_undo,
                           [idx |-> idx, type |-> "", op |-> "TypeError",
                            target |-> "", outcome |-> "raised"])
                    /\ cl_ret' = [status |-> "raised"]
                    /\ cl' = [cl EXCEPT !.active = FALSE]
                    /\ EscRaise("TypeError")
                    /\ UNCHANGED simulation_actions
               ELSE \E outcome \in InverseOutcomes(action.type) :
                    /\ cl_undo' = Append(cl_undo,
                           [idx |-> idx, type |-> action.type,
                            op |-> InverseOp(action.type),
                            target |-> IF InverseKey(action.type) = "" THEN ""
                                       ELSE DataGet(action.data,
                                                    InverseKey(action.type)),
                            outcome |-> outcome])
                    /\ cl' = [cl EXCEPT !.k = @ + 1]
                    /\ UNCHANGED <<pc, cl_ret, simulation_actions, esc,
                                   esc_ret>>
    /\ UNCHANGED <<config, view, catalog, tcp, procs, rat_vars, pb_vars, host>>

\* ----------------------------------------------------------- tool detection
\* The host: the well-known directories (by their index in the lists below)
\* that hold the executable, whether Get-Command finds it on the PATH, and
\* whether the program runs with administrator privileges.
HostBare == [nmap_dirs |-> {}, nmap_on_path |-> FALSE,
             ncrack_dirs |-> {}, ncrack_on_path |-> FALSE, elevated |-> FALSE]

\* Hosts without administrator privileges, with every combination of the
\* tools' places; with the privileges, the hosts where a tool is in no
\* well-known directory (the ones an installer is called on).
HostStates ==
    [nmap_dirs : {{}, {2}}, nmap_on_path : BOOLEAN,
     ncrack_dirs : {{}, {3, 5}}, ncrack_on_path : BOOLEAN, elevated : {FALSE}]
    \cup [nmap_dirs : {{}}, nmap_on_path : BOOLEAN,
          ncrack_dirs : {{}}, ncrack_on_path : BOOLEAN, elevated : {TRUE}]

NmapCommonPaths == <<"C:\\Program Files\\Nmap", "C:\\Program Files (x86)\\Nmap">>

NcrackCommonPaths ==
    <<"C:\\Program Files (x86)\\Ncrack", "C:\\Program Files\\Ncrack",
      "C:\\Program Files (x86)\\Nmap", "C:\\Program Files\\Nmap",
      "C:\\Tools\\Ncrack", "~\\Tools\\Ncrack">>

\* The first listed directory that holds the executable, 0 when none does.
LastDir(paths, dirs) ==
    LET hits == {i \in 1..Len(paths) : i \in dirs}
    IN IF hits = {} THEN 0 ELSE CHOOSE i \in hits : \A j \in hits : i >= j

FirstDir(paths, dirs) ==
    LET hits == {i \in 1..Len(paths) : i \in dirs}
    IN IF hits = {} THEN 0 ELSE CHOOSE i \in hits : \A j \in hits : i <= j

\* How the Get-Command fallback can go: powershell cannot be run, or it
\* prints a "Path :" line, or it prints output without one.
GetCommandOutcomes == {"error", "path_line", "no_path_line"}

\* A detection result: found, path, and how the Get-Command fallback went
\* ("skipped" when a well-known directory held the executable).
NoDetection == [found |-> FALSE, path |-> None, lookup |-> "none"]

NotFound(lookup) == [found |-> FALSE, path |-> None, lookup |-> lookup]

Found(path, lookup) == [found |-> TRUE, path |-> path, lookup |-> lookup]

is_nmap_installed(h, gc) ==
    LET d == FirstDir(NmapCommonPaths, h.nmap_dirs)
    IN IF d > 0 THEN Found(NmapCommonPaths[d], "skipped")
       ELSE IF gc = "error" THEN NotFound(gc)
       ELSE IF h.nmap_on_path
            THEN IF gc = "path_line" THEN Found("nmap.exe on PATH", gc)
                 ELSE Found("nmap", gc)
       ELSE NotFound(gc)

is_ncrack_installed(h, gc) ==
    LET d == FirstDir(NcrackCommonPaths, h.ncrack_dirs)
    IN IF d > 0 THEN Found(NcrackCommonPaths[d], "skipped")
       ELSE IF gc = "error" THEN NotFound(gc)
       ELSE IF h.ncrack_on_path THEN Found("ncrack.exe on PATH", gc)
       ELSE NotFound(gc)

\* ------------------------------------------------------ run_escalation_flow
\* Longest log a brute-force attempt is still started with.
MaxLog == 2
\* Most lines of scanner output.
MaxScanLines == 2

\* What the frame remembers of the cracker run: its return code and whether
\* the read loop saw the "Discovered credentials" marker (found_credentials).
NoAttempt == [ran |-> FALSE, code |-> 0, found_credentials |-> FALSE]

\* What the frame remembers of a tool installer call: how the call ended
\* ("none" while not called), whether the operator was asked and confirmed
\* or declined the automatic installation in it, and whether the installer
\* command was run.
NoInstall ==
    [ended |-> "none", confirmed |-> FALSE, declined |-> FALSE,
     installer_ran |-> FALSE]

EscFrame == [active |-> TRUE, nmap_path |-> None, open_ports_info |-> <<>>,
             module |-> None, port |-> 0, ncrack_path |-> None,
             notice |-> "none", scan |-> "none", scan_out |-> <<>>,
             nmap |-> "unresolved", ncrack |-> "unresolved",
             selected |-> None, wordlists |-> "none", bf |-> NoAttempt,
             nmap_res |-> NoDetection, ncrack_res |-> NoDetection,
             nmap_install |-> NoInstall, ncrack_install |-> NoInstall,
             installs |-> [nmap |-> 0, ncrack |-> 0]]

EscFlags == [check_prereqs : BOOLEAN, get_prereqs : BOOLEAN,
             cleanup_flag : BOOLEAN]

\* Lines 1335-1345: the flags are handled first, in this order.
EscCall(f) ==
    /\ IF f.check_prereqs
       THEN /\ esc_ret' = [status |-> "returned", success |-> TRUE,
                           message |-> "Checking prerequisites"]
            /\ pc' = "returned"
            /\ UNCHANGED <<esc, log_vars>>
       ELSE IF f.get_prereqs
       THEN /\ esc_ret' = [status |-> "returned", success |-> FALSE,
                           message |-> "Installation will be attempted"]
            /\ pc' = "returned"
            /\ UNCHANGED <<esc, log_vars>>
       ELSE IF f.cleanup_flag
       THEN /\ cleanup_enter("flag")
            /\ esc' = EscFrame
            /\ UNCHANGED esc_ret
       ELSE /\ esc' = EscFrame
            /\ pc' = "esc_nmap"
            /\ UNCHANGED <<esc_ret, log_vars>>
    /\ UNCHANGED <<config, view, catalog, tcp, procs, rat_vars, pb_vars, host>>

\* run_escalation_flow called from the custom test menu (line 2083, no
\* flags) or with flags by any other caller of the function.
RunEscalationFlow ==
    /\ pc = "idle"
    /\ \E f \in EscFlags : EscCall(f)

\* Lines 1355-1361: a found scanner without a path ends the flow.
EscAfterNmap(frame, path) ==
    IF path = None
    THEN EscReturnFrom(frame, FALSE, "Nmap executable path not determined.")
    ELSE /\ esc' = [frame EXCEPT !.nmap_path = path, !.nmap = "found"]
         /\ pc' = "esc_scan"
         /\ UNCHANGED esc_ret

\* A flow that calls the installer whatever the detection said.
needs_install_always(found) == TRUE

\* Lines 1349 and 1463: `if not nmap_found:', `if not ncrack_found:'.
needs_install(found) == ~found

\* Lines 1346-1348: detection of the scanner.
EscDetectNmap ==
    /\ pc = "esc_nmap"
    /\ \E gc \in GetCommandOutcomes :
          LET r == is_nmap_installed(host, gc)
              frame == [esc EXCEPT !.nmap_res = r]
          IN IF ~needs_install(r.found) THEN EscAfterNmap(frame, r.path)
             ELSE /\ pc' = "esc_install_nmap"
                  /\ esc' = [frame EXCEPT !.nmap = "missing"]
                  /\ UNCHANGED esc_ret
    /\ UNCHANGED <<config, view, catalog, tcp, procs, rat_vars, pb_vars, log_vars, host>>

EscNmapFailedMessage ==
    "Nmap installation failed. Escalation flow cannot continue."

\* Line 979: the installer branch is entered on the operator's confirmation.
install_nmap_proceeds_unasked(confirm) == TRUE

install_nmap_proceeds(confirm) == confirm

\* install_nmap (lines 976-1029) and lines 1349-1353. The operator confirms
\* the automatic installation or not; the installer command raises, ends
\* with code 0 or ends with another code; the executable appears in the
\* first well-known directory or not; after declining, the operator says
\* whether the scanner was installed by hand. No privilege is tested.
EscInstallNmap ==
    /\ pc = "esc_install_nmap"
    /\ \E confirm \in BOOLEAN, run \in {"exception", "rc0", "rc_nonzero"},
          appears \in BOOLEAN, by_hand \in BOOLEAN,
          gc \in GetCommandOutcomes :
          LET h2 == IF appears THEN [host EXCEPT !.nmap_dirs = @ \cup {1}]
                    ELSE host
              r == is_nmap_installed(h2, gc)
              call == [ended |-> "returned_not_found", confirmed |-> confirm,
                       declined |-> ~confirm,
                       installer_ran |-> install_nmap_proceeds(confirm)
                                         /\ run # "exception"]
              called == [esc EXCEPT !.installs.nmap = @ + 1]
              failed == [called EXCEPT !.nmap_install = call]
              redetected ==
                  [called EXCEPT !.nmap_res = r,
                              !.nmap_install =
                                  [call EXCEPT !.ended =
                                      IF r.found THEN "returned_found"
                                      ELSE "returned_not_found"]]
              verify == /\ host' = h2
                        /\ IF r.found THEN EscAfterNmap(redetected, r.path)
                           ELSE EscReturnFrom(redetected, FALSE,
                                              EscNmapFailedMessage)
              give_up == /\ EscReturnFrom(failed, FALSE, EscNmapFailedMessage)
                         /\ UNCHANGED host
          IN IF install_nmap_proceeds(confirm)
             THEN CASE run = "exception" -> give_up
                    [] run = "rc_nonzero" ->
                         /\ EscExitFrom([called EXCEPT !.nmap_install =
                                 [call EXCEPT !.ended = "SystemExit"]])
                         /\ UNCHANGED host
                    [] run = "rc0" -> verify
             ELSE IF by_hand THEN verify
                  ELSE give_up
    /\ UNCHANGED <<config, view, catalog, tcp, procs, rat_vars, pb_vars, log_vars>>

\* Scanner output: lines of the port table.
ScanLine(port, state, service) ==
    [port |-> port, proto |-> "tcp", state |-> state, service |-> service]

ScanLines == {ScanLine(22, "open", "FTP"), ScanLine(22, "open", "foobar-svc"),
              ScanLine(21, "open", "foobar-svc"), ScanLine(80, "closed", "http")}

RECURSIVE SeqsUpTo(_, _)
SeqsUpTo(S, n) ==
    IF n = 0 THEN {<<>>}
    ELSE SeqsUpTo(S, n - 1)
         \cup {Append(q, x) : q \in {t \in SeqsUpTo(S, n - 1) : Len(t) = n - 1},
                              x \in S}

ScanOutputs == SeqsUpTo(ScanLines, MaxScanLines)

\* re.findall(r"(\d+)/tcp\s+open\s+([a-zA-Z0-9_-]+)", stdout), lines 1373-1377.
LineMatches(line) == line.proto = "tcp" /\ line.state = "open"

RECURSIVE ParsePorts(_)
ParsePorts(stdout) ==
    IF stdout = <<>> THEN <<>>
    ELSE LET rest == ParsePorts(Tail(stdout))
             line == Head(stdout)
         IN IF LineMatches(line)
            THEN <<[port |-> line.port, service |-> line.service]>> \o rest
            ELSE rest

\* list.sort(key=port), line 1380: a stable sort.
InsertByPortUnstable(sorted, x) ==
    LET k == Cardinality({i \in 1..Len(sorted) : sorted[i].port < x.port})
    IN SubSeq(sorted, 1, k) \o <<x>> \o SubSeq(sorted, k + 1, Len(sorted))

InsertByPort(sorted, x) ==
    LET k == Cardinality({i \in 1..Len(sorted) : sorted[i].port <= x.port})
    IN SubSeq(sorted, 1, k) \o <<x>> \o SubSeq(sorted, k + 1, Len(sorted))

RECURSIVE SortByPort(_)
SortByPort(q) ==
    IF q = <<>> THEN <<>>
    ELSE InsertByPort(SortByPort(SubSeq(q, 1, Len(q) - 1)), q[Len(q)])

get_local_ip == "192.0.2.10"

\* Lines 1389-1403: scan_success is set True at the end of the try block and
\* False by each of the three except clauses (CalledProcessError,
\* FileNotFoundError, Exception).
ScanExceptClauses == <<"CalledProcessError", "FileNotFoundError", "Exception">>

scan_success_always(outcome) == TRUE

scan_success(outcome) == outcome = "ok"

\* Lines 1373-1405: how the try block ends. outcome is "ok" or the exception
\* raised in it; the services are parsed only when subprocess.run returned.
EscScanEnds(outcome, stdout) ==
    LET frame == [esc EXCEPT !.scan = outcome, !.scan_out = stdout,
                             !.open_ports_info =
                                 IF outcome = "ok"
                                 THEN SortByPort(ParsePorts(stdout))
                                 ELSE <<>>]
    IN IF outcome # "ok" /\ FirstClause(ScanExceptClauses, outcome) = 0
       THEN EscRaise(outcome)
       ELSE IF scan_success(outcome)
       THEN /\ esc' = frame
            /\ pc' = "esc_menu"
            /\ UNCHANGED esc_ret
       ELSE EscReturnFrom(frame, FALSE, "Nmap scan failed")

\* Lines 1363-1371: subprocess.run starts the scanner, or the start fails.
EscScanSpawn ==
    /\ pc = "esc_scan"
    /\ \E launch \in {"started", "FileNotFoundError", "PermissionError"} :
          IF launch = "started"
          THEN /\ procs' = Append(procs,
                      [tool |-> "nmap",
                       argv |-> <<esc.nmap_path, "-p-", "-sV", get_local_ip>>,
                       state |-> "running", code |-> 0, out |-> <<>>])
               /\ pc' = "esc_scan_wait"
               /\ UNCHANGED <<esc, esc_ret>>
          ELSE /\ EscScanEnds(launch, <<>>)
               /\ UNCHANGED procs
    /\ UNCHANGED <<config, view, catalog, tcp, rat_vars, pb_vars, log_vars, host>>

\* The scanner process exits with its output written.
ScannerExits ==
    /\ pc = "esc_scan_wait"
    /\ Len(procs) = 1 /\ procs[1].state = "running"
    /\ \E code \in ExitCodes, stdout \in ScanOutputs :
          procs' = <<[procs[1] EXCEPT !.state = "exited", !.code = code,
                                      !.out = stdout]>>
    /\ UNCHANGED <<pc, config, view, catalog, tcp, rat_vars, pb_vars, log_vars, esc_vars>>

\* Lines 1366-1405: subprocess.run(check=True) returns or raises
\* CalledProcessError.
EscScanReturns ==
    /\ pc = "esc_scan_wait"
    /\ Len(procs) = 1 /\ procs[1].state = "exited"
    /\ procs' = <<>>
    /\ EscScanEnds(IF procs[1].code # 0 THEN "CalledProcessError" ELSE "ok",
                   procs[1].out)
    /\ UNCHANGED <<config, view, catalog, tcp, rat_vars, pb_vars, log_vars, host>>

\* Lines 1439-1450: scanner service name -> cracker module, looked up by the
\* lower-cased name; None when the table has no entry.
ServiceLower(name) == IF name = "FTP" THEN "ftp" ELSE name

ncrack_service_map_fallback(name) ==
    CASE name \in {"ssh", "ftp", "telnet", "http", "https"} -> name
      [] name \in {"microsoft-ds", "netbios-ssn"} -> "smb"
      [] name = "ms-wbt-server" -> "rdp"
      [] OTHER -> "ssh"

ncrack_service_map(name) ==
    CASE name \in {"ssh", "ftp", "telnet", "http", "https"} -> name
      [] name \in {"microsoft-ds", "netbios-ssn"} -> "smb"
      [] name = "ms-wbt-server" -> "rdp"
      [] OTHER -> None

\* What the operator may type at the port prompt: text that is no number,
\* or a number.
PortChoices ==
    {[is_int |-> FALSE, n |-> 0]}
    \cup {[is_int |-> TRUE, n |-> k] : k \in 0..(MaxScanLines + 1)}

\* The frame at the start of a pass through the menu loop: the names bound
\* by an earlier pass (selected service, module, cracker path) are not read
\* before they are bound again.
MenuFrame ==
    [esc EXCEPT !.selected = None, !.notice = "none", !.module = None,
                !.port = 0, !.ncrack = "unresolved", !.ncrack_path = None,
                !.wordlists = "none", !.ncrack_res = NoDetection,
                !.ncrack_install = NoInstall]

\* Lines 1428-1456 and 1523-1526: the port prompt of menu action 1.
EscSelectPort(port_choice) ==
    /\ UNCHANGED <<esc_ret, log_vars>>
    /\ IF ~port_choice.is_int
       THEN /\ esc' = [MenuFrame EXCEPT !.notice = "invalid_input"]
            /\ UNCHANGED pc
       ELSE IF port_choice.n = 0
       THEN /\ esc' = [MenuFrame EXCEPT !.notice = "back"]
            /\ UNCHANGED pc
       ELSE IF port_choice.n > Len(esc.open_ports_info)
       THEN /\ esc' = [MenuFrame EXCEPT !.notice = "invalid_port"]
            /\ UNCHANGED pc
       ELSE LET info == esc.open_ports_info[port_choice.n]
                module == ncrack_service_map(ServiceLower(info.service))
            IN IF module = None
               THEN /\ esc' = [MenuFrame EXCEPT !.selected = info.service,
                                                !.notice = "no_module"]
                    /\ UNCHANGED pc
               ELSE /\ Len(simulation_actions) < MaxLog
                    /\ esc' = [MenuFrame EXCEPT !.selected = info.service,
                                                !.port = info.port,
                                                !.module = module]
                    /\ pc' = "esc_ncrack"

\* Lines 1408-1456 and 1523-1552: one pass through the action menu.
EscMenu ==
    /\ pc = "esc_menu"
    /\ IF esc.open_ports_info # <<>>
       THEN \E action_choice \in {0, 1, 2} :
            CASE action_choice = 0 ->
                   /\ EscReturnFrom(MenuFrame, TRUE,
                          "User chose to go back from escalation flow.")
                   /\ UNCHANGED log_vars
              [] action_choice = 2 ->
                   /\ cleanup_enter("menu")
                   /\ esc' = MenuFrame
                   /\ UNCHANGED esc_ret
              [] action_choice = 1 ->
                   \E port_choice \in PortChoices : EscSelectPort(port_choice)
       ELSE \E action_choice \in {0, 1} :
            IF action_choice = 1
            THEN /\ cleanup_enter("noports")
                 /\ UNCHANGED <<esc, esc_ret>>
            ELSE /\ EscReturn(TRUE, "User chose to go back (no open ports found).")
                 /\ UNCHANGED log_vars
    /\ UNCHANGED <<config, view, catalog, tcp, procs, rat_vars, pb_vars, host>>

\* Lines 1460-1474: detection of the cracker; when it is not found,
\* install_ncrack is called, whose first test (line 1180) calls is_admin, a
\* name defined nowhere in the module: NameError.
EscResolveNcrack ==
    /\ pc = "esc_ncrack"
    /\ \E gc \in GetCommandOutcomes :
          LET r == is_ncrack_installed(host, gc)
              frame == [esc EXCEPT !.ncrack_res = r]
          IN IF needs_install(r.found)
             THEN EscRaiseFrom([frame EXCEPT
                                   !.ncrack = "missing",
                                   !.installs.ncrack = @ + 1,
                                   !.ncrack_install =
                                       [NoInstall EXCEPT !.ended = "NameError"]],
                               "NameError")
             ELSE IF r.path = None
             THEN EscReturnFrom(frame, FALSE,
                                "Ncrack executable path not determined.")
             ELSE /\ esc' = [frame EXCEPT !.ncrack_path = r.path,
                                        !.ncrack = "found"]
                  /\ pc' = "esc_wordlists"
                  /\ UNCHANGED esc_ret
    /\ UNCHANGED <<config, view, catalog, tcp, procs, rat_vars, pb_vars, log_vars, host>>

\* Lines 1517-1522: the attempt is appended to the log and the flow returns.
EscAfterBruteforceFrom(frame, bf_success) ==
    /\ simulation_actions' =
           Append(simulation_actions,
                  BruteForceNote(esc.module, esc.port, bf_success))
    /\ EscReturnFrom(frame, TRUE, "Brute-force flow completed.")
    /\ UNCHANGED cl_vars

EscAfterBruteforce(bf_success) == EscAfterBruteforceFrom(esc, bf_success)

\* Lines 1498-1505: both wordlists must exist, the user list is tested
\* first.
wordlists_check_user_only(user_list_exists, pass_list_exists) ==
    IF ~user_list_exists THEN "user_missing" ELSE "ok"

wordlists_check(user_list_exists, pass_list_exists) ==
    IF ~user_list_exists THEN "user_missing"
    ELSE IF ~pass_list_exists THEN "pass_missing"
    ELSE "ok"

\* What the two os.path.exists tests of lines 1498 and 1502 would answer.
WordlistsOnDisk(user_list_exists, pass_list_exists) ==
    IF user_list_exists /\ pass_list_exists THEN "ok"
    ELSE IF user_list_exists THEN "pass_missing"
    ELSE "user_missing"

\* Lines 1477-1515 and 1267-1286, 1319-1327: the wordlists are asked for and
\* must exist; then perform_bruteforce starts the cracker, or fails to.
EscWordlists ==
    /\ pc = "esc_wordlists"
    /\ \E user_list_exists \in BOOLEAN, pass_list_exists \in BOOLEAN,
          launch \in {"started", "FileNotFoundError", "PermissionError"} :
          LET frame == [esc EXCEPT !.wordlists =
                           WordlistsOnDisk(user_list_exists, pass_list_exists)]
          IN IF wordlists_check(user_list_exists, pass_list_exists) # "ok"
             THEN /\ esc' = [frame EXCEPT !.notice = "wordlist_missing"]
                  /\ pc' = "esc_menu"
                  /\ UNCHANGED <<esc_ret, procs, log_vars>>
             ELSE IF launch = "started"
             THEN /\ procs' = Append(procs,
                         [tool |-> "ncrack",
                          argv |-> <<esc.ncrack_path, esc.module, get_local_ip,
                                     esc.port>>,
                          state |-> "running", code |-> 0, marker |-> FALSE])
                  /\ pc' = "bf_stream"
                  /\ esc' = frame
                  /\ UNCHANGED <<esc_ret, log_vars>>
             ELSE /\ EscAfterBruteforceFrom(frame, FALSE)
                  /\ UNCHANGED procs
    /\ UNCHANGED <<config, view, catalog, tcp, rat_vars, pb_vars, host>>

\* The cracker exits; its output held the "Discovered credentials" marker
\* or not.
CrackerExits ==
    /\ pc = "bf_stream"
    /\ Len(procs) = 1 /\ procs[1].state = "running"
    /\ \E code \in ExitCodes, marker \in BOOLEAN :
          procs' = <<[procs[1] EXCEPT !.state = "exited", !.code = code,
                                      !.marker = marker]>>
    /\ UNCHANGED <<pc, config, view, catalog, tcp, rat_vars, pb_vars, log_vars, esc_vars>>

\* Lines 1291-1317: the read loop ends, the process is reaped, and the
\* return code alone decides the returned flag.
perform_bruteforce_result(code, found_credentials) == code = 0

EscBruteforceReturns ==
    /\ pc = "bf_stream"
    /\ Len(procs) = 1 /\ procs[1].state = "exited"
    /\ procs' = <<>>
    /\ EscAfterBruteforceFrom(
           [esc EXCEPT !.bf = [ran |-> TRUE, code |-> procs[1].code,
                               found_credentials |-> procs[1].marker]],
           perform_bruteforce_result(procs[1].code, procs[1].marker))
    /\ UNCHANGED <<config, view, catalog, tcp, rat_vars, pb_vars, host>>

\* Lines 1342, 1530-1531, 1547-1548: cleanup has returned to the flow.
EscAfterCleanup ==
    /\ pc \in {"esc_after_cleanup_flag", "esc_after_cleanup",
               "esc_after_cleanup_noports"}
    /\ EscReturn(TRUE, CASE pc = "esc_after_cleanup_flag" ->
                                "Cleanup completed."
                          [] pc = "esc_after_cleanup" ->
                                "Cleanup initiated by user."
                          [] OTHER ->
                                "Cleanup initiated by user (no open ports found).")
    /\ UNCHANGED <<config, view, catalog, tcp, procs, rat_vars, pb_vars, log_vars, host>>

NoObs == [technique_id |-> <<>>, capture_output |-> TRUE, launch |-> "none",
          spawned |-> 0, ended |-> "none", code |-> 0]

\* A top-level operation has returned; its caller (a command, a menu) shows
\* the result, drops it and the program waits for the next request.
ReturnToMenu ==
    /\ pc = "returned"
    /\ pc' = "idle"
    /\ rat_ret' = NoRet
    /\ rat_obs' = NoObs
    /\ pb_ret' = NoPbRet
    /\ pb_runs' = <<>>
    /\ pb' = NoFrame
    /\ cl' = NoFrame
    /\ cl_undo' = <<>>
    /\ cl_ret' = NoRet
    /\ esc' = NoFrame
    /\ esc_ret' = NoEscRet
    /\ view' = NoFrame
    /\ UNCHANGED <<config, catalog, tcp, procs, rat, simulation_actions, host>>

\* The state after the modules are imported: nothing is running, the log is
\* empty (line 929).
InitIdle ==
    /\ pc = "idle"
    /\ tcp = NoTcp
    /\ catalog = PLAYBOOKS
    /\ view = NoFrame
    /\ procs = <<>>
    /\ rat = NoFrame
    /\ rat_ret = NoRet
    /\ rat_obs = NoObs
    /\ pb = NoFrame
    /\ pb_ret = NoPbRet
    /\ pb_runs = <<>>
    /\ cl = NoFrame
    /\ cl_undo = <<>>
    /\ cl_ret = NoRet
    /\ esc = NoFrame
    /\ esc_ret = NoEscRet

\* The technique runner and the playbook sequencer.
Init ==
    /\ InitIdle
    /\ config \in [powershell_path : {"powershell"}, timeout : Timeouts]
    /\ simulation_actions = <<>>
    /\ host = HostBare

Next ==
    \/ RunAtomicTest
    \/ RatSpawn
    \/ RunnerExits
    \/ RunnerTick
    \/ RatWaitReturns
    \/ RatTimeout
    \/ ExecutePlaybook
    \/ PbLoop
    \/ PbCollect
    \/ GetAvailablePlaybooks
    \/ HandleTechniqueDetailsPrompt
    \/ ShowFilteredTests
    \/ ViewSpawn
    \/ ViewReturns
    \/ ReturnToMenu

Spec == Init /\ [][Next]_vars

\* The escalation flow, on every host.
InitEscalation ==
    /\ InitIdle
    /\ config = [powershell_path |-> "powershell", timeout |-> MaxTimeout]
    /\ simulation_actions = <<>>
    /\ host \in HostStates

NextEscalation ==
    \/ RunEscalationFlow
    \/ EscDetectNmap
    \/ EscInstallNmap
    \/ EscScanSpawn
    \/ ScannerExits
    \/ EscScanReturns
    \/ EscMenu
    \/ EscResolveNcrack
    \/ EscWordlists
    \/ CrackerExits
    \/ EscBruteforceReturns
    \/ CleanupStep
    \/ EscAfterCleanup
    \/ ReturnToMenu

SpecEscalation == InitEscalation /\ [][NextEscalation]_vars

\* The steps of the flow that the program takes by itself once it can: all
\* but the start of a flow and the exit of an external process, which the
\* operator and the process decide.
EscProgramStep ==
    \/ EscDetectNmap
    \/ EscInstallNmap
    \/ EscScanSpawn
    \/ EscScanReturns
    \/ EscMenu
    \/ EscResolveNcrack
    \/ EscWordlists
    \/ EscBruteforceReturns
    \/ CleanupStep
    \/ EscAfterCleanup
    \/ ReturnToMenu

\* The escalation flow with a thread that keeps running: an enabled program
\* step is eventually taken; an external process may run for ever.
SpecEscalationLive ==
    InitEscalation /\ [][NextEscalation]_vars /\ WF_vars(EscProgramStep)

\* cleanup() on every log it can be handed. simulation_actions is a
\* module-level list (line 929); cleanup() handles entries that are records
\* of five types, warns about records of any other type, and line 1517
\* appends strings: the logs are drawn from entries of all these kinds.
MaxSeed == 3
\* Lines an operating-system pipe holds before a write to it blocks.
PipeCapacity == 2
\* Longest output, in lines, that the cracker writes in one run.
MaxOutput == 3

SeedEntries ==
    {Action("create_file", <<<<"filepath", "C:\\sim\\f.txt">>>>),
     Action("create_directory", <<<<"dirpath", "C:\\sim\\d">>>>),
     Action("modify_registry", <<<<"key_path", "HKCU:\\Sim">>,
                                 <<"value_name", "v">>>>),
     Action("start_service", <<<<"service_name", "svc">>>>),
     Action("disable_firewall_rule", <<<<"rule_name", "rule">>>>),
     Action("open_port", <<<<"port", "p">>>>),
     BruteForceNote("ssh", 22, TRUE)}

InitCleanup ==
    /\ InitIdle
    /\ config = [powershell_path |-> "powershell", timeout |-> MaxTimeout]
    /\ simulation_actions \in SeqsUpTo(SeedEntries, MaxSeed)
    /\ host = HostBare

\* run_escalation_flow(cleanup_flag=True): the call that only runs cleanup().
RunCleanup ==
    /\ pc = "idle"
    /\ EscCall([check_prereqs |-> FALSE, get_prereqs |-> FALSE,
                cleanup_flag |-> TRUE])

NextCleanup ==
    \/ RunCleanup
    \/ CleanupStep
    \/ EscAfterCleanup
    \/ ReturnToMenu

SpecCleanup == InitCleanup /\ [][NextCleanup]_vars

\* ------------------------------------------------------ configuration store
\* A stored setting is a Python value: an int or a str.
PyInt(n) == [py |-> "int", n |-> n, s |-> ""]
PyStr(s) == [py |-> "str", n |-> 0, s |-> s]

\* DEFAULT_CONFIG (core/config.py 14-18).
DEFAULT_CONFIG ==
    [atomics_path |-> PyStr(""), powershell_path |-> PyStr("powershell"),
     timeout |-> PyInt(300)]

\* AppConfig.update_setting: self.config[key] = value.
update_setting(settings, key, value) ==
    [k \in DOMAIN settings \cup {key} |->
        IF k = key THEN value ELSE settings[k]]

\* The settings a command leaves stored: save_config writes the updated
\* dictionary, or fails with IOError and leaves the file as it was.
Stored(settings, key, value, saved) ==
    IF saved THEN update_setting(settings, key, value) ELSE settings

\* Keys and values an operator types after `config set'.
ConfigKeys == {"timeout", "powershell_path", "atomics_path", "colour"}
ConfigTexts == {"5", "-5", "abc", ""}
\* Numbers an operator types where an integer is asked for.
TimeoutNumbers == (0 - 1)..MaxTimeout
\* Paths an operator names; the second one does not exist.
ConfigPaths == {"C:\\ps\\pwsh.exe", "C:\\nowhere"}

\* commands/config.py 46-61: `config set KEY VALUE' stores the text as typed
\* under any key.
ConfigSet ==
    /\ pc = "idle"
    /\ \E key \in ConfigKeys, value \in ConfigTexts, saved \in BOOLEAN :
          config' = Stored(config, key, PyStr(value), saved)
    /\ UNCHANGED <<pc, view, catalog, tcp, procs, rat_vars, pb_vars, log_vars, esc_vars>>

\* commands/config.py 132-150: `config set-timeout SECONDS' rejects a number
\* that is not positive and stores any other.
ConfigSetTimeout ==
    /\ pc = "idle"
    /\ \E seconds \in TimeoutNumbers, saved \in BOOLEAN :
          IF seconds <= 0 THEN UNCHANGED config
          ELSE config' = Stored(config, "timeout", PyInt(seconds), saved)
    /\ UNCHANGED <<pc, view, catalog, tcp, procs, rat_vars, pb_vars, log_vars, esc_vars>>

\* commands/config.py 76-129: the two path commands store the absolute path
\* of an existing directory or file and reject any other.
ConfigSetPath ==
    /\ pc = "idle"
    /\ \E key \in {"atomics_path", "powershell_path"}, path \in ConfigPaths,
          saved \in BOOLEAN :
          IF path = "C:\\nowhere" THEN UNCHANGED config
          ELSE config' = Stored(config, key, PyStr(path), saved)
    /\ UNCHANGED <<pc, view, catalog, tcp, procs, rat_vars, pb_vars, log_vars, esc_vars>>

\* interactive.py 1857-1869: the settings menu asks for an integer and
\* stores it when it is positive.
InteractiveSetTimeout ==
    /\ pc = "idle"
    /\ \E timeout \in TimeoutNumbers :
          IF timeout > 0
          THEN config' = update_setting(config, "timeout", PyInt(timeout))
          ELSE UNCHANGED config
    /\ UNCHANGED <<pc, view, catalog, tcp, procs, rat_vars, pb_vars, log_vars, esc_vars>>

\* The configuration commands, starting from the default settings. In this
\* specification the settings are the Python values that were stored.
InitConfig ==
    /\ InitIdle
    /\ config = DEFAULT_CONFIG
    /\ simulation_actions = <<>>
    /\ host = HostBare

NextConfig ==
    \/ ConfigSet
    \/ ConfigSetTimeout
    \/ ConfigSetPath
    \/ InteractiveSetTimeout

SpecConfig == InitConfig /\ [][NextConfig]_vars

\* ------------------------------------------------------------- TCPListener
rest_unchanged == <<pc, config, view, catalog, procs, rat_vars, pb_vars, log_vars, esc_vars>>

\* start_tcp_listener (start_clickfix_flow.py 50-55): the object is made and
\* the listener thread started.
StartTcpListener ==
    /\ tcp.mt = "idle"
    /\ tcp' = [tcp EXCEPT !.mt = "started", !.lt = "create"]
    /\ UNCHANGED rest_unchanged

\* Lines 24-27: the server socket is created, bound and set to listen; bind
\* may raise, which leads to the finally clause.
ListenerCreate ==
    /\ tcp.lt = "create"
    /\ \E bound \in BOOLEAN :
          tcp' = [tcp EXCEPT !.server_socket = "open",
                             !.lt = IF bound THEN "set_running"
                                    ELSE "finally"]
    /\ UNCHANGED rest_unchanged

\* Line 28: self.running = True.
ListenerSetRunning ==
    /\ tcp.lt = "set_running"
    /\ tcp' = [tcp EXCEPT !.running = TRUE, !.lt = "loop"]
    /\ UNCHANGED rest_unchanged

\* Line 33: while self.running.
ListenerLoop ==
    /\ tcp.lt = "loop"
    /\ tcp' = [tcp EXCEPT !.lt = IF tcp.running THEN "accept" ELSE "finally"]
    /\ UNCHANGED rest_unchanged

\* Lines 35-51: accept with a timeout of one second. A closed server socket
\* raises OSError and ends the loop; otherwise the call times out or
\* returns a client's connection, for which a handler thread is started.
ListenerAccept ==
    /\ tcp.lt = "accept"
    /\ IF tcp.server_socket = "closed"
       THEN tcp' = [tcp EXCEPT !.lt = "finally"]
       ELSE \/ tcp' = [tcp EXCEPT !.lt = "loop"]
            \/ \E c \in Clients :
                  /\ tcp.sock[c] = "unconnected"
                  /\ tcp' = [tcp EXCEPT !.sock[c] = "open",
                                        !.ht[c] = "append",
                                        !.lt = "loop"]
    /\ UNCHANGED rest_unchanged

\* Lines 101-107: every listed connection is closed and the list cleared.
stop_close_connections(t) ==
    [t EXCEPT !.sock = [c \in Clients |->
                          IF \E i \in 1..Len(t.connections) :
                                 t.connections[i] = c
                          THEN "closed" ELSE t.sock[c]],
              !.connections = <<>>]

\* Lines 110-114: the server socket is closed if there is one.
stop_close_server(t) ==
    [t EXCEPT !.server_socket = IF @ # "None" THEN "closed" ELSE @]

\* Line 56: the finally clause of start_listener calls stop_listener, here
\* in its three steps (lines 99, 101-107, 110-114).
ListenerFinally ==
    /\ tcp.lt \in {"finally", "fin_conns", "fin_server"}
    /\ tcp' = CASE tcp.lt = "finally" ->
                     [tcp EXCEPT !.running = FALSE, !.lt = "fin_conns"]
                [] tcp.lt = "fin_conns" ->
                     [stop_close_connections(tcp) EXCEPT !.lt = "fin_server"]
                [] tcp.lt = "fin_server" ->
                     [stop_close_server(tcp) EXCEPT !.lt = "done"]
    /\ UNCHANGED rest_unchanged

\* stop_tcp_listener (start_clickfix_flow.py 70-73): the main thread calls
\* stop_listener, at any time after it has started the listener thread.
StopListener ==
    /\ tcp.mt \in {"started", "stop_conns", "stop_server"}
    /\ tcp' = CASE tcp.mt = "started" ->
                     [tcp EXCEPT !.running = FALSE, !.mt = "stop_conns"]
                [] tcp.mt = "stop_conns" ->
                     [stop_close_connections(tcp) EXCEPT !.mt = "stop_server"]
                [] tcp.mt = "stop_server" ->
                     [stop_close_server(tcp) EXCEPT !.mt = "stopped"]
    /\ UNCHANGED rest_unchanged

\* handle_client, line 61: the client socket is appended to the list.
HandlerAppend ==
    /\ \E c \in Clients :
          /\ tcp.ht[c] = "append"
          /\ tcp' = [tcp EXCEPT !.connections = Append(@, c),
                                !.ht[c] = "loop"]
    /\ UNCHANGED rest_unchanged

\* Lines 63-84: while self.running, recv; data keeps the loop going, an
\* empty read, a reset or an error (a socket closed under the thread is one)
\* ends it.
HandlerLoop ==
    /\ \E c \in Clients :
          /\ tcp.ht[c] = "loop"
          /\ IF ~tcp.running
             THEN tcp' = [tcp EXCEPT !.ht[c] = "finally"]
             ELSE IF tcp.sock[c] = "closed"
             THEN tcp' = [tcp EXCEPT !.ht[c] = "finally"]
             ELSE \E data \in BOOLEAN :
                     tcp' = [tcp EXCEPT !.ht[c] = IF data THEN "loop"
                                                 ELSE "finally"]
    /\ UNCHANGED rest_unchanged

\* Lines 88-95: the socket is closed and taken off the list if it is on it.
HandlerFinally ==
    /\ \E c \in Clients :
          /\ tcp.ht[c] = "finally"
          /\ tcp' = [tcp EXCEPT
                        !.sock[c] = "closed",
                        !.connections = SelectSeq(@, LAMBDA x : x # c),
                        !.ht[c] = "done"]
    /\ UNCHANGED rest_unchanged

InitListener ==
    /\ InitIdle
    /\ config = [powershell_path |-> "powershell", timeout |-> MaxTimeout]
    /\ simulation_actions = <<>>
    /\ host = HostBare

ListenerThread ==
    \/ ListenerCreate
    \/ ListenerSetRunning
    \/ ListenerLoop
    \/ ListenerAccept
    \/ ListenerFinally

HandlerThreads ==
    \/ HandlerAppend
    \/ HandlerLoop
    \/ HandlerFinally

NextListener ==
    \/ StartTcpListener
    \/ StopListener
    \/ ListenerCreate
    \/ ListenerSetRunning
    \/ ListenerLoop
    \/ ListenerAccept
    \/ ListenerFinally
    \/ HandlerAppend
    \/ HandlerLoop
    \/ HandlerFinally

\* The listener with its threads: a thread that can take a step eventually
\* takes one; the main thread calls stop_listener when it chooses, and once
\* in the call runs it to its end.
SpecListener ==
    /\ InitListener
    /\ [][NextListener]_vars
    /\ WF_vars(ListenerThread)
    /\ WF_vars(HandlerThreads)
    /\ WF_vars(StopListener /\ tcp.mt # "started")

\* ------------------------------------------- perform_bruteforce, its pipes
\* The cracker's output as the lines it writes, in order: "out" is a line on
\* standard output, "hit" one that holds "Discovered credentials", "err" a
\* line on standard error.
CrackerScripts == SeqsUpTo({"out", "hit", "err"}, MaxOutput)

\* The flow is at line 1508 with a port, a module, the cracker's path and
\* the wordlists settled.
InitBruteforce ==
    /\ view = NoFrame
    /\ catalog = PLAYBOOKS
    /\ tcp = NoTcp
    /\ procs = <<>>
    /\ rat = NoFrame /\ rat_ret = NoRet /\ rat_obs = NoObs
    /\ pb = NoFrame /\ pb_ret = NoPbRet /\ pb_runs = <<>>
    /\ cl = NoFrame /\ cl_undo = <<>> /\ cl_ret = NoRet
    /\ esc_ret = NoEscRet
    /\ config = [powershell_path |-> "powershell", timeout |-> MaxTimeout]
    /\ simulation_actions = <<>>
    /\ host = [HostBare EXCEPT !.ncrack_dirs = {1}, !.nmap_dirs = {2}]
    /\ esc = [EscFrame EXCEPT !.module = "ftp", !.port = 22,
                              !.ncrack_path = NcrackCommonPaths[1],
                              !.ncrack = "found", !.wordlists = "ok"]
    /\ pc = "bf_call"

\* Line 1286: Popen with stdout and stderr both piped.
BfPopen ==
    /\ pc = "bf_call"
    /\ \E script \in CrackerScripts :
          procs' = <<[tool |-> "ncrack",
                      argv |-> <<esc.ncrack_path, esc.module, get_local_ip,
                                 esc.port>>,
                      state |-> "running", code |-> 0, marker |-> FALSE,
                      script |-> script, out_pipe |-> <<>>,
                      err_pipe |-> <<>>]>>
    /\ pc' = "bf_readline"
    /\ UNCHANGED <<config, view, catalog, tcp, rat_vars, pb_vars, log_vars, esc_vars>>

\* The cracker writes its next line; the write blocks while the pipe it goes
\* to is full.
CrackerWrites ==
    /\ Len(procs) = 1 /\ procs[1].state = "running"
    /\ "script" \in DOMAIN procs[1]
    /\ procs[1].script # <<>>
    /\ LET line == Head(procs[1].script)
       IN IF line = "err"
          THEN /\ Len(procs[1].err_pipe) < PipeCapacity
               /\ procs' = <<[procs[1] EXCEPT !.script = Tail(@),
                                              !.err_pipe = Append(@, line)]>>
          ELSE /\ Len(procs[1].out_pipe) < PipeCapacity
               /\ procs' = <<[procs[1] EXCEPT !.script = Tail(@),
                                              !.out_pipe = Append(@, line)]>>
    /\ UNCHANGED <<pc, config, view, catalog, tcp, rat_vars, pb_vars, log_vars, esc_vars>>

\* The cracker has written all its output and exits, which closes its ends
\* of both pipes.
CrackerFinishes ==
    /\ Len(procs) = 1 /\ procs[1].state = "running"
    /\ "script" \in DOMAIN procs[1]
    /\ procs[1].script = <<>>
    /\ \E code \in ExitCodes :
          procs' = <<[procs[1] EXCEPT !.state = "exited", !.code = code]>>
    /\ UNCHANGED <<pc, config, view, catalog, tcp, rat_vars, pb_vars, log_vars, esc_vars>>

\* Lines 1291-1299: readline() on standard output returns a line when the
\* pipe holds one and '' at end of file, and blocks otherwise; the loop ends
\* on '' with the process gone. Standard error is not read here.
BfReadline ==
    /\ pc = "bf_readline"
    /\ Len(procs) = 1
    /\ IF procs[1].out_pipe # <<>>
       THEN /\ procs' = <<[procs[1] EXCEPT
                              !.out_pipe = Tail(@),
                              !.marker = @ \/ Head(procs[1].out_pipe) = "hit"]>>
            /\ UNCHANGED pc
       ELSE /\ procs[1].state = "exited"
            /\ pc' = "bf_communicate"
            /\ UNCHANGED procs
    /\ UNCHANGED <<config, view, catalog, tcp, rat_vars, pb_vars, log_vars, esc_vars>>

\* Lines 1301-1317: communicate() drains what is left of both pipes and
\* reaps the process; the function returns and the flow logs the attempt.
BfCommunicate ==
    /\ pc = "bf_communicate"
    /\ Len(procs) = 1 /\ procs[1].state = "exited"
    /\ procs' = <<>>
    /\ EscAfterBruteforceFrom(
           [esc EXCEPT !.bf = [ran |-> TRUE, code |-> procs[1].code,
                               found_credentials |-> procs[1].marker]],
           perform_bruteforce_result(procs[1].code, procs[1].marker))
    /\ UNCHANGED <<config, view, catalog, tcp, rat_vars, pb_vars, host>>

NextBruteforce ==
    \/ BfPopen
    \/ CrackerWrites
    \/ CrackerFinishes
    \/ BfReadline
    \/ BfCommunicate

\* perform_bruteforce with its pipes. The cracker writes whenever the pipe
\* takes the line and exits when it has written everything; the
\* orchestrator's thread runs whenever its call can return.
SpecBruteforce ==
    /\ InitBruteforce
    /\ [][NextBruteforce]_vars
    /\ WF_vars(CrackerWrites \/ CrackerFinishes)
    /\ WF_vars(BfPopen \/ BfReadline \/ BfCommunicate)

\* ================================================================== claims
\* The identifier format of the data model: a capital T, four decimal digits
\* and optionally a dot and three decimal digits, with nothing before or
\* after.
StrictPattern(s) ==
    /\ Len(s) \in {5, 9}
    /\ s[1] = "T"
    /\ \A i \in 2..5 : IsDigit(s[i])
    /\ Len(s) = 9 => s[6] = "." /\ \A i \in 7..9 : IsDigit(s[i])

\* A run_atomic_test call is in progress or has just returned.
RatCalled == rat_obs # NoObs

\* C1: for every technique_id that does not match the strict pattern,
\* run_atomic_test returns (False, message) and spawns no external process.
C1_InvalidIdSpawnsNothing ==
    (RatCalled /\ ~StrictPattern(rat_obs.technique_id)) =>
        /\ rat_obs.spawned = 0
        /\ procs = <<>>
        /\ rat_ret.status = "returned" => rat_ret.success = FALSE

\* The tests of the playbook that execute_playbook is running or has run.
PbTests == pb.playbook.tests

\* results[k] is the entry of the k-th declared test.
PbResultsInOrder(results) ==
    \A k \in 1..Len(results) :
        /\ results[k].technique_id = PbTests[k].technique_id
        /\ results[k].description = PbTests[k].description

\* C2: execute_playbook on a known playbook with N tests runs every test
\* exactly once, one at a time and in declared order (a test is started only
\* when the one before it has returned), and returns exactly N results in that
\* order whatever subset of the tests fails.
C2_PlaybookRunsAllInOrder ==
    /\ pb # NoFrame =>
        /\ Len(pb_runs) <= Len(PbTests)
        /\ pb_runs = SubSeq(PbTests, 1, Len(pb_runs))
        /\ Len(pb_runs) \in {Len(pb.results), Len(pb.results) + 1}
        /\ Len(pb_runs) = Len(pb.results) + 1
               <=> pc \in {"rat_spawn", "rat_wait", "pb_collect"}
        /\ PbResultsInOrder(pb.results)
        /\ Len(procs) <= 1
    /\ (pb # NoFrame /\ pb_ret.status = "returned") =>
        /\ Len(pb_ret.results) = Len(PbTests)
        /\ pb_runs = PbTests
        /\ PbResultsInOrder(pb_ret.results)

\* C2 witness: a playbook has returned all its results although its first
\* test failed and a later one succeeded.
C2_Witness ==
    /\ pb # NoFrame
    /\ pb_ret.status = "returned"
    /\ Len(pb_ret.results) = Len(PbTests)
    /\ ~pb_ret.results[1].success
    /\ pb_ret.results[2].success

\* C3: for a known playbook, overall_success is the logical AND of the success
\* fields of the returned results.
C3_OverallIsConjunction ==
    (pb # NoFrame /\ pb_ret.status = "returned") =>
        (pb_ret.success <=>
            \A k \in 1..Len(pb_ret.results) : pb_ret.results[k].success)

\* C3 witness: a playbook whose first test failed and whose last test
\* succeeded has returned overall failure.
C3_Witness ==
    /\ pb # NoFrame
    /\ pb_ret.status = "returned"
    /\ ~pb_ret.results[1].success
    /\ pb_ret.results[Len(pb_ret.results)].success
    /\ ~pb_ret.success

\* C8: every outcome of launching the runner becomes a returned
\* (success, message): executable not found, non-zero exit, timeout and any
\* other operating-system failure each give success = False, and no exception
\* leaves run_atomic_test.
C8_LaunchOutcomesAreReturned ==
    /\ rat_ret.status # "raised"
    /\ pc # "crashed"
    /\ rat_ret.status = "returned" =>
        /\ rat_obs.launch = "FileNotFoundError" =>
               ~rat_ret.success /\ rat_ret.kind = "not_found"
        /\ rat_obs.launch = "PermissionError" =>
               ~rat_ret.success /\ rat_ret.kind = "unexpected"
        /\ (rat_obs.ended = "exited" /\ rat_obs.code # 0) =>
               ~rat_ret.success /\ rat_ret.kind = "nonzero_exit"
        /\ rat_obs.ended = "timeout" =>
               ~rat_ret.success /\ rat_ret.kind = "timeout"

\* C8 witness: an operating-system failure other than a missing executable
\* has been returned as a failure.
C8_Witness ==
    /\ rat_ret.status = "returned"
    /\ rat_obs.launch = "PermissionError"
    /\ rat_ret.kind = "unexpected"

\* C9: when the timeout elapses with the runner still running, the runner is
\* stopped (no runner process is alive once the call has returned) and the
\* result is a failure classified as timeout, not as a non-zero exit.
C9_TimeoutStopsRunner ==
    /\ pc \notin {"rat_spawn", "rat_wait", "view_wait"} =>
           \A i \in 1..Len(procs) : procs[i].tool # "runner"
    /\ (rat_ret.status = "returned" /\ rat_obs.ended = "timeout") =>
           /\ ~rat_ret.success
           /\ rat_ret.kind = "timeout"
           /\ rat_ret.kind # "nonzero_exit"

\* C9 witness: a call has returned after its timeout elapsed.
C9_Witness ==
    /\ pc = "returned"
    /\ rat_ret.status = "returned"
    /\ rat_obs.ended = "timeout"
    /\ rat_ret.kind = "timeout"

\* C10: for a valid technique_id, success = True exactly when the runner was
\* launched, exited before the timeout and exited with code 0, in both
\* capture modes.
C10_SuccessIffExitZero ==
    (rat_ret.status = "returned" /\ StrictPattern(rat_obs.technique_id)) =>
        (rat_ret.success <=>
            /\ rat_obs.spawned = 1
            /\ rat_obs.ended = "exited"
            /\ rat_obs.code = 0)

\* C10 witness: a call without output capture whose runner exited with a
\* non-zero code has returned.
C10_Witness ==
    /\ rat_ret.status = "returned"
    /\ StrictPattern(rat_obs.technique_id)
    /\ ~rat_obs.capture_output
    /\ rat_obs.ended = "exited"
    /\ rat_obs.code # 0
    /\ ~rat_ret.success

\* cleanup() has ended: it returned, or an exception left it.
CleanupEnded == cl_ret.status \in {"returned", "raised"}

\* C4: cleanup() attempts the inverses strictly in reverse insertion order:
\* of two recorded actions, the one recorded later has its inverse attempted
\* first.
C4_CleanupReverseOrder ==
    \A a, b \in 1..Len(cl_undo) : a < b => cl_undo[a].idx > cl_undo[b].idx

\* A directory recorded after a file: the directory was removed first, the
\* file second.
C4_Witness ==
    /\ Len(cl_undo) = 2
    /\ cl_undo[1].op = "shutil.rmtree" /\ cl_undo[1].idx = 2
    /\ cl_undo[2].op = "os.remove" /\ cl_undo[2].idx = 1
    /\ cl_undo[2].outcome = "done"

\* C5: after any call to cleanup() the action log is empty, whatever it
\* held and whether or not an inverse step failed.
C5_LogEmptyAfterCleanup ==
    CleanupEnded => simulation_actions = <<>>

\* C6: every recorded action is visited in one cleanup pass; no failure on
\* one entry keeps the loop from the entries recorded before it.
C6_EveryActionAttempted ==
    CleanupEnded =>
        \A i \in 1..cl.n : \E k \in 1..Len(cl_undo) : cl_undo[k].idx = i

\* C7: run_escalation_flow ends only by returning a (bool, str) pair; it
\* never raises and never exits the process.
C7_FlowAlwaysReturnsPair ==
    /\ esc_ret.status \in {"none", "returned"}
    /\ esc_ret.status = "returned" => esc_ret.success \in BOOLEAN

\* A flow call's frame exists (the call is running or has just ended).
EscFramed == esc # NoFrame

\* C11: a failed scan (non-zero exit, executable missing, any other error)
\* makes the run return failure at once: the action menu is not entered, no
\* port is selected, no cleanup runs and no parsed service is kept.
C11_ScanFailureIsTerminal ==
    (EscFramed /\ esc.scan \notin {"none", "ok"}) =>
        /\ pc = "returned"
        /\ esc_ret.status = "returned" /\ ~esc_ret.success
        /\ esc.open_ports_info = <<>>
        /\ esc.module = None /\ esc.ncrack_path = None
        /\ cl_ret.status = "none"
        /\ procs = <<>>

\* The scanner ran and exited with a non-zero code; the flow has returned
\* failure.
C11_Witness ==
    /\ EscFramed
    /\ esc.scan = "CalledProcessError"
    /\ esc_ret.status = "returned" /\ ~esc_ret.success

\* The matching lines of the scanner output, in output order.
MatchingLines == SelectSeq(esc.scan_out, LineMatches)

\* C12: after a successful scan the service list has one entry per matching
\* line (duplicates kept), is ordered by port ascending, and keeps entries
\* of equal port in their order in the scanner output.
C12_ServicesSortedStable ==
    (EscFramed /\ esc.scan = "ok") =>
        LET o == esc.open_ports_info
            m == MatchingLines
        IN /\ Len(o) = Len(m)
           /\ \A i, j \in 1..Len(o) : i < j => o[i].port <= o[j].port
           /\ \E f \in [1..Len(o) -> 1..Len(m)] :
                 /\ \A i, j \in 1..Len(o) : i # j => f[i] # f[j]
                 /\ \A i \in 1..Len(o) :
                       /\ o[i].port = m[f[i]].port
                       /\ o[i].service = m[f[i]].service
                 /\ \A i, j \in 1..Len(o) :
                       (i < j /\ o[i].port = o[j].port) => f[i] < f[j]

\* Two open services reported on the same port: both are listed, in the
\* order the scanner printed them.
C12_Witness ==
    /\ EscFramed /\ esc.scan = "ok"
    /\ esc.scan_out = <<ScanLine(22, "open", "foobar-svc"),
                        ScanLine(22, "open", "FTP")>>
    /\ Len(esc.open_ports_info) = 2
    /\ esc.open_ports_info[1].service = "foobar-svc"

\* Every scanner or cracker process that exists was started from a resolved
\* path.
SpawnedToolsResolved ==
    \A i \in 1..Len(procs) :
        /\ procs[i].tool = "nmap" =>
               /\ EscFramed /\ esc.nmap = "found"
               /\ esc.nmap_path # None /\ procs[i].argv[1] = esc.nmap_path
        /\ procs[i].tool = "ncrack" =>
               /\ EscFramed /\ esc.ncrack = "found"
               /\ esc.ncrack_path # None
               /\ procs[i].argv[1] = esc.ncrack_path

\* C13: the scanner is spawned only after it was resolved and the cracker
\* only after it was resolved; a run in which a tool could not be resolved
\* ends by returning failure.
C13_ToolDependencyNeverBypassed ==
    /\ SpawnedToolsResolved
    /\ (EscFramed /\ ~esc.active
           /\ (esc.nmap = "missing" \/ esc.ncrack = "missing")) =>
          (esc_ret.status = "returned" /\ ~esc_ret.success)

\* The scanner names the module table has an entry for (lines 1439-1448),
\* compared without regard to case.
HasModule(name) ==
    ServiceLower(name) \in {"ssh", "ftp", "telnet", "http", "https",
                            "microsoft-ds", "netbios-ssn", "ms-wbt-server"}

\* C14: selecting a service whose name has no module leaves the flow in the
\* action menu with the "no module" notice: the cracker is neither resolved
\* nor spawned, the log is unchanged, and the flow neither returns nor
\* raises.
C14_UnmappedServiceIsRecoverable ==
    [][(pc = "esc_menu" /\ esc'.selected # None /\ ~HasModule(esc'.selected))
         => /\ pc' = "esc_menu"
            /\ esc'.active /\ esc'.notice = "no_module"
            /\ esc'.ncrack = "unresolved" /\ esc'.ncrack_path = None
            /\ procs = <<>> /\ procs' = <<>>
            /\ simulation_actions' = simulation_actions
            /\ esc_ret' = esc_ret /\ esc_ret.status = "none"]_vars

\* The operator selected the service "foobar-svc" and is back in the menu.
C14_Witness ==
    /\ pc = "esc_menu"
    /\ EscFramed /\ esc.selected = "foobar-svc"
    /\ esc.notice = "no_module"
    /\ esc_ret.status = "none"

\* C15: when the user list or the password list is not on disk, the cracker
\* is not started and only the attempt is given up: the flow is back in the
\* action menu, still running, with nothing returned and nothing logged.
C15_MissingWordlistAbortsAttemptOnly ==
    [][(pc = "esc_wordlists"
          /\ esc'.wordlists \in {"user_missing", "pass_missing"})
         => /\ pc' = "esc_menu"
            /\ esc'.active
            /\ procs = <<>> /\ procs' = <<>>
            /\ simulation_actions' = simulation_actions
            /\ esc_ret' = esc_ret /\ esc_ret.status = "none"]_vars

\* The user list exists, the password list does not; the flow is in the
\* menu again.
C15_Witness ==
    /\ pc = "esc_menu"
    /\ EscFramed /\ esc.wordlists = "pass_missing"
    /\ esc.notice = "wordlist_missing"
    /\ esc.ncrack = "found"
    /\ procs = <<>>

\* The entry the flow appended last.
LastLogged == simulation_actions[Len(simulation_actions)]

\* C16: a brute-force attempt is logged as succeeded exactly when the
\* "Discovered credentials" marker appeared in the cracker's output; exit
\* code 0 without the marker is not a success.
C16_SuccessIffMarker ==
    (EscFramed /\ esc.bf.ran /\ esc_ret.status = "returned") =>
        (LastLogged.text.outcome = "succeeded" <=> esc.bf.found_credentials)

\* C17: a cracker that exits with a non-zero code fails the attempt but
\* does not end the flow: the next position is the action menu, the frame
\* stays active and nothing is returned.
C17_CrackerFailureKeepsFlowRunning ==
    [][(pc = "bf_stream" /\ esc'.bf.ran /\ esc'.bf.code # 0)
         => /\ pc' = "esc_menu"
            /\ esc'.active
            /\ esc_ret' = esc_ret]_vars

\* What the resolver must answer on a host: the executable in the first
\* well-known directory holding it, without any lookup; otherwise the
\* lookup's answer, found exactly when the lookup worked and the executable
\* is on the PATH.
DetectionFollowsOrder(res, paths, dirs, on_path) ==
    res.lookup # "none" =>
        IF dirs # {}
        THEN /\ res.found /\ res.lookup = "skipped"
             /\ res.path = paths[CHOOSE i \in dirs : \A j \in dirs : i <= j]
        ELSE /\ res.lookup \in GetCommandOutcomes
             /\ res.found <=> (on_path /\ res.lookup # "error")

\* C18: detection takes the well-known directories in list order and
\* returns the first that holds the executable; the command lookup runs
\* only when none does; not-found is reported only when both fail.
C18_DetectionOrder ==
    EscFramed =>
        /\ DetectionFollowsOrder(esc.nmap_res, NmapCommonPaths,
                                 host.nmap_dirs, host.nmap_on_path)
        /\ DetectionFollowsOrder(esc.ncrack_res, NcrackCommonPaths,
                                 host.ncrack_dirs, host.ncrack_on_path)

\* The scanner sits in the second well-known directory only, the cracker
\* in the third and the fifth: the second and the third are returned and no
\* lookup was made.
C18_Witness ==
    /\ EscFramed
    /\ host.nmap_dirs = {2} /\ host.ncrack_dirs = {3, 5}
    /\ esc.nmap_res = Found(NmapCommonPaths[2], "skipped")
    /\ esc.ncrack_res = Found(NcrackCommonPaths[3], "skipped")

\* The ways a tool installer call ends by returning to the flow.
InstallReturned == {"none", "returned_found", "returned_not_found"}

\* C19: for the scanner and for the cracker, an install call that does not
\* make the tool available returns not-found to the flow; it never ends
\* the process and never raises.
C19_InstallFailureReturnsNotFound ==
    EscFramed =>
        /\ esc.nmap_install.ended \in InstallReturned
        /\ esc.ncrack_install.ended \in InstallReturned
        /\ (esc.nmap = "missing" /\ esc.nmap_install.ended # "none") =>
               esc.nmap_install.ended = "returned_not_found"
        /\ esc.ncrack = "missing" =>
               esc.ncrack_install.ended = "returned_not_found"

\* C20: without administrator privileges no installer command is run for
\* either tool, and the install call returns to the flow.
C20_NoInstallWithoutPrivileges ==
    (EscFramed /\ ~host.elevated) =>
        /\ ~esc.nmap_install.installer_ran
        /\ ~esc.ncrack_install.installer_ran
        /\ esc.nmap_install.ended \in {"none", "returned_not_found"}
        /\ esc.ncrack_install.ended \in {"none", "returned_not_found"}

\* What C21 asks of one installer call: the installer command ran only on
\* the operator's confirmation, and a declined call ran nothing and
\* returned to the flow.
InstallGuarded(call) ==
    /\ call.installer_ran => call.confirmed
    /\ (call.declined /\ call.ended # "none") =>
           /\ ~call.installer_ran
           /\ call.ended \in {"returned_found", "returned_not_found"}

C22_FirewallRuleReEnabled ==
    \A k \in 1..Len(cl_undo) :
        cl_undo[k].type = "disable_firewall_rule" =>
            /\ cl_undo[k].op = "Enable-NetFirewallRule"
            /\ cl_undo[k].target = "rule"

\* The action types cleanup() has a branch for.
RecognizedTypes ==
    {"create_file", "create_directory", "modify_registry", "start_service",
     "disable_firewall_rule"}

\* C23: a log entry of an unrecognized type is skipped: the loop step that
\* meets it performs no inverse, raises nothing, returns nothing and goes on
\* to the next entry with the log untouched.
C23_UnknownTypeSkipped ==
    [][(pc = "cl_loop" /\ Len(cl_undo') = Len(cl_undo) + 1
          /\ cl_undo'[Len(cl_undo')].type \notin RecognizedTypes \cup {""})
         => /\ cl_undo'[Len(cl_undo')].op = "skip"
            /\ cl_undo'[Len(cl_undo')].outcome = "skipped"
            /\ pc' = "cl_loop" /\ cl'.active /\ cl'.k = cl.k + 1
            /\ cl_ret' = cl_ret /\ esc_ret' = esc_ret
            /\ simulation_actions' = simulation_actions]_vars

\* An entry of type open_port was skipped and the entry recorded before it,
\* a created file, was removed afterwards.
C23_Witness ==
    /\ Len(cl_undo) = 2
    /\ cl_undo[1].type = "open_port" /\ cl_undo[1].op = "skip"
    /\ cl_undo[2].op = "os.remove" /\ cl_undo[2].outcome = "done"

\* Two names are the same up to the case of their letters.
SameUpToCase(a, b) ==
    /\ Len(a) = Len(b)
    /\ \A i \in 1..Len(a) :
          \/ a[i] = b[i]
          \/ \E j \in 1..Len(UpperLetters) :
                {a[i], b[i]} = {UpperLetters[j], LowerLetters[j]}

\* execute_playbook has returned the result of a failed lookup.
PbNotFound ==
    /\ pb_ret.status = "returned"
    /\ Len(pb_ret.results) = 1
    /\ "error" \in DOMAIN pb_ret.results[1]

\* C24: execute_playbook finds a playbook whatever the letter case of the
\* name; a name of no playbook gives an overall failure with exactly one
\* failing result that names it, and no process is started.
C24_PlaybookLookup ==
    /\ pb # NoFrame =>
          /\ pb.playbook.name \in DOMAIN PLAYBOOKS
          /\ pb.playbook = PLAYBOOKS[pb.playbook.name]
          /\ SameUpToCase(pb.playbook_name, pb.playbook.name)
    /\ PbNotFound =>
          /\ ~\E k \in DOMAIN PLAYBOOKS :
                SameUpToCase(pb_ret.results[1].error, k)
          /\ pb_ret.success = FALSE
          /\ DOMAIN pb_ret.results[1] = {"error"}
          /\ pb_runs = <<>> /\ procs = <<>> /\ rat_obs = NoObs
          /\ pb = NoFrame

\* The catalog key in capitals has selected the persistence playbook and its
\* first test has run.
C24_Witness ==
    /\ pb # NoFrame
    /\ pb.playbook_name # pb.playbook.name
    /\ pb.playbook.name = KeyPersistence
    /\ Len(pb.results) >= 1

\* A name of no playbook has been answered with the single failing result.
C24_WitnessUnknown ==
    /\ PbNotFound
    /\ pb_ret.results[1].error = <<"n", "o", "s", "u", "c", "h">>

\* The fields of a comma-separated string.
RECURSIVE SplitCommas(_)
SplitCommas(str) ==
    IF \A i \in 1..Len(str) : str[i] # "," THEN <<str>>
    ELSE LET i == CHOOSE i \in 1..Len(str) :
                     str[i] = "," /\ \A j \in 1..(i - 1) : str[j] # ","
         IN <<SubSeq(str, 1, i - 1)>>
            \o SplitCommas(SubSeq(str, i + 1, Len(str)))

\* The number a string of digits denotes; -1 for any other string.
RECURSIVE ToInt(_)
ToInt(str) ==
    IF str = <<>> \/ \E i \in 1..Len(str) : ~IsDigit(str[i]) THEN -1
    ELSE LET d == CHOOSE d \in 0..9 : DigitChars[d + 1] = str[Len(str)]
         IN IF Len(str) = 1 THEN d
            ELSE ToInt(SubSeq(str, 1, Len(str) - 1)) * 10 + d

\* The positions of an option in a built command.
OptAt(command, name) == {i \in 1..Len(command) : command[i].opt = name}

\* C25: the built command carries the technique id as given, and for a
\* non-empty list of test numbers one -TestNumbers value whose comma-separated
\* fields are the given numbers in the given order, duplicates included; the
\* list that was passed is as it was.
C25_CommandCarriesIdAndNumbers ==
    (rat # NoFrame /\ rat.active) =>
        LET at == OptAt(rat.command, "-AtomicTechnique")
            tn == OptAt(rat.command, "-TestNumbers")
        IN /\ Cardinality(at) = 1
           /\ \A i \in at : rat.command[i].val = rat_obs.technique_id
           /\ rat.test_numbers = <<>> => tn = {}
           /\ rat.test_numbers # <<>> =>
                 /\ Cardinality(tn) = 1
                 /\ \A i \in tn :
                       LET fields == SplitCommas(rat.command[i].val)
                       IN [k \in 1..Len(fields) |-> ToInt(fields[k])]
                              = rat.test_numbers
           /\ rat.caller = "playbook" =>
                 rat.test_numbers = PbTests[pb.i].test_numbers

\* A command was built and started for a list that repeats a number and is
\* not in ascending order.
C25_Witness ==
    /\ rat # NoFrame /\ rat.active
    /\ rat.test_numbers = <<2, 10, 2>>
    /\ rat_obs.spawned = 1

ModeOptions == {"-CheckPrereqs", "-GetPrereqs", "-Cleanup"}

\* C26: a built command contains at most one of -CheckPrereqs, -GetPrereqs
\* and -Cleanup, whatever combination of mode flags the caller passes.
C26_AtMostOneModeOption ==
    (rat # NoFrame /\ rat.active) =>
        Cardinality({i \in 1..Len(rat.command) :
                        rat.command[i].opt \in ModeOptions}) <= 1

\* C27: every technique runner process that was started with a technique
\* identifier was started with one that matches the strict pattern.
C27_SpawnedIdsValidated ==
    \A i \in 1..Len(procs) :
        procs[i].tool = "runner" =>
            \A j \in OptAt(procs[i].argv, "-AtomicTechnique") :
                procs[i].argv[j].val # All =>
                    StrictPattern(procs[i].argv[j].val)

\* The flow is blocked in a call that waits for an external process.
EscBlocked == pc \in {"esc_scan_wait", "bf_stream"}

\* C28: a blocking call of the escalation flow (the scan, the brute-force
\* run) eventually returns to the flow, whether or not the external process
\* ever exits.
C28_BlockingCallsReturn == EscBlocked ~> ~EscBlocked

\* C29: a step that changes the host (files, directories, the search path)
\* appends one Action record to the log and leaves the earlier entries as
\* they were.
C29_MutationsAreLogged ==
    [][host' # host =>
         /\ Len(simulation_actions') = Len(simulation_actions) + 1
         /\ SubSeq(simulation_actions', 1, Len(simulation_actions))
                = simulation_actions
         /\ simulation_actions'[Len(simulation_actions')].py = "dict"]_vars

\* A step appends one entry to the log and keeps the earlier ones.
LogAppends ==
    /\ Len(simulation_actions') = Len(simulation_actions) + 1
    /\ SubSeq(simulation_actions', 1, Len(simulation_actions))
           = simulation_actions

\* The log changes only by an append or by the clearing that ends cleanup().
LogPrefixKept ==
    [][\/ simulation_actions' = simulation_actions
       \/ LogAppends
       \/ cl.active /\ simulation_actions' = <<>>]_vars

\* C30: between cleanups the log only grows at its end, and a step appends
\* to it only when it has changed the host.
C30_AppendOnlyByMutations ==
    [][\/ simulation_actions' = simulation_actions
       \/ LogAppends /\ host' # host
       \/ cl.active /\ simulation_actions' = <<>>]_vars

\* The external processes that are running.
Alive == {i \in 1..Len(procs) : procs[i].state = "running"}

\* C31: at most one external process started by the orchestrator exists at
\* any time; a process is started only when the previous one has exited or
\* been killed and has been reaped: between the tests of a playbook and
\* when a test is about to start its process, none exists.
C31_OneProcessAtATime ==
    /\ Len(procs) <= 1
    /\ Cardinality(Alive) <= 1
    /\ pc \in {"rat_spawn", "pb_loop", "pb_collect"} => procs = <<>>

\* The second test of a playbook is running after the first one's process
\* ran into its timeout.
C31_Witness ==
    /\ pc = "rat_wait"
    /\ pb # NoFrame /\ pb.active
    /\ Len(pb.results) = 1 /\ pb.results[1].output = "timeout"
    /\ Alive = {1}

\* C32: the playbook catalog is never changed: in every state the dictionary
\* holds the playbooks it was loaded with, each with its tests in order.
C32_CatalogReadOnly == catalog = PLAYBOOKS

\* The discovery playbook has run to its end with a failed test.
C32_Witness ==
    /\ pc = "returned"
    /\ pb # NoFrame /\ pb.playbook.name = KeyDiscovery
    /\ pb_ret.status = "returned"
    /\ Len(pb_ret.results) = 4
    /\ ~pb_ret.success

\* C33: every entry of the action log is an Action record with a type and a
\* data payload, the entry appended after a brute-force attempt included.
C33_EntriesAreActions ==
    \A i \in 1..Len(simulation_actions) :
        /\ simulation_actions[i].py = "dict"
        /\ simulation_actions[i].type # ""

\* C34: once perform_bruteforce is in its read loop it returns, for every
\* output the cracker writes to its two streams.
C34_ReadLoopTerminates == (pc = "bf_readline") ~> (pc = "returned")

\* C35: after any sequence of configuration operations the stored timeout
\* is a positive integer.
C35_TimeoutPositiveInt ==
    /\ "timeout" \in DOMAIN config
    /\ config["timeout"].py = "int"
    /\ config["timeout"].n > 0

\* run_atomic_test has turned its technique_id down at the validation.
RatRejected == rat_ret.status = "returned" /\ rat_ret.kind = "invalid_id"

\* C36: validate_technique_id accepts exactly the strings made of a capital
\* T, four digits and optionally a dot and three digits, with nothing before
\* or after: a call is turned down at the validation exactly when its
\* identifier is not of that form.
C36_ValidationIsStrict ==
    RatCalled => (RatRejected <=> ~StrictPattern(rat_obs.technique_id))

\* The step is a call of the tool's installer from the flow.
InstallAttempted(tool) ==
    /\ pc \in {"esc_install_nmap", "esc_ncrack"}
    /\ esc'.installs[tool] > esc.installs[tool]

StopReturned == tcp.mt = "stopped"

\* C38: once stop_listener has returned the accept loop ends, no connection
\* is accepted any more, and when no handler thread is running every client
\* socket is closed and the connections list is empty.
C38_StopEndsListener ==
    /\ StopReturned ~> (tcp.lt = "done")
    /\ [][StopReturned =>
             \A c \in Clients :
                 tcp.sock[c] = "unconnected" => tcp'.sock[c] = "unconnected"]_vars
    /\ []((StopReturned /\ \A c \in Clients : tcp.ht[c] \in {"none", "done"})
            => /\ tcp.connections = <<>>
               /\ \A c \in Clients : tcp.sock[c] # "open")

\* The accept loop of a listener that was stopped comes to its end.
C38_AcceptLoopExits == StopReturned ~> (tcp.lt = "done")

\* When the stopped listener has no handler thread running, no client
\* socket is open and the connections list is empty.
C38_HandlersLeaveNothingOpen ==
    (StopReturned /\ \A c \in Clients : tcp.ht[c] \in {"none", "done"})
        => /\ tcp.connections = <<>>
           /\ \A c \in Clients : tcp.sock[c] # "open"

\* A stop that found the server socket and closed it ends the accept loop.
C38_StopAfterCreateEndsLoop ==
    (StopReturned /\ tcp.server_socket = "closed") ~> (tcp.lt = "done")

\* str.upper() on the letters that occur in playbook names.
Upper(s) ==
    [i \in 1..Len(s) |->
        IF \E j \in 1..Len(LowerLetters) : LowerLetters[j] = s[i]
        THEN UpperLetters[CHOOSE j \in 1..Len(LowerLetters) :
                              LowerLetters[j] = s[i]]
        ELSE s[i]]

\* A name in other letter cases: as it is, in capitals, capitalised, and
\* with every second letter a capital.
LetterCases(name) ==
    {name, Upper(name), <<Upper(name)[1]>> \o Tail(name),
     [i \in 1..Len(name) |-> IF i % 2 = 0 THEN Upper(name)[i] ELSE name[i]]}

\* The results execute_playbook has collected so far or has returned.
PbCollected ==
    IF pb_ret.status = "returned" THEN pb_ret.results
    ELSE IF pb # NoFrame THEN pb.results ELSE <<>>

\* C39: every playbook of the catalog is stored under its lower-cased name,
\* has at least one test, and all its technique IDs pass
\* validate_technique_id; no result of a playbook run is a validation
\* failure; and every name get_available_playbooks lists is found by
\* get_playbook, in any letter case.
C39_CatalogWellFormed ==
    /\ \A k \in DOMAIN catalog :
          /\ k = Lower(catalog[k].name)
          /\ Len(catalog[k].tests) >= 1
          /\ \A i \in 1..Len(catalog[k].tests) :
                validate_technique_id(catalog[k].tests[i].technique_id)
    /\ \A i \in 1..Len(PbCollected) :
          "output" \in DOMAIN PbCollected[i]
              => PbCollected[i].output # "invalid_id"
    /\ pb_ret.status = "listed" =>
          /\ Len(pb_ret.names) = Cardinality(DOMAIN catalog)
          /\ \A i \in 1..Len(pb_ret.names) :
                \A name \in LetterCases(pb_ret.names[i]) :
                    /\ get_playbook(name) # <<>>
                    /\ get_playbook(name)[1].name = pb_ret.names[i]

\* A playbook named in capitals has run all its tests.
C39_Witness ==
    /\ pb_ret.status = "returned"
    /\ pb # NoFrame
    /\ pb.playbook_name = Upper(KeyPersistence)
    /\ Len(pb_ret.results) = Len(PLAYBOOKS[KeyPersistence].tests)

\* The catalog's names have been listed.
C39_Listed == pb_ret.status = "listed" /\ Len(pb_ret.names) = 3

\* C40: a cleanup() that returns leaves the log empty, nothing changes the
\* log before the next call, and a cleanup() called on an empty log performs
\* no inverse step, leaves the log empty and returns; so a second call
\* right after a first does nothing to the log or the host.
C40_CleanupIdempotent ==
    /\ [](cl_ret.status = "returned" => simulation_actions = <<>>)
    /\ [][(pc = "returned" /\ pc' = "idle")
             => simulation_actions' = simulation_actions]_vars
    /\ [][(pc = "idle" /\ pc' # "idle" /\ simulation_actions = <<>>)
             => /\ cl_undo' = <<>>
                /\ simulation_actions' = <<>>
                /\ cl_ret'.status = "returned"
                /\ cl'.n = 0
                /\ pc' = "esc_after_cleanup_flag"]_vars

\* cleanup() was called on an empty log and has returned to the flow without
\* an inverse step.
C40_Witness ==
    /\ pc = "esc_after_cleanup_flag"
    /\ cl # NoFrame /\ cl.n = 0
    /\ cl_ret.status = "returned"
    /\ cl_undo = <<>>
    /\ simulation_actions = <<>>

====
